---- MODULE Spec2Model ----
(***************************************************************************)
(* Model of scripts/generate_dashboard.py: latest_test_signals (collect   *)
(* the candidates from workflows, jobs and check-runs, deduplicate, rank,  *)
(* cut, select the overall signal) and build_cards (the repositories taken *)
(* and the card ordering), gh with its response cache, detect_version,     *)
(* discover_repo_dependencies, and of gh with check_rate_limit of the      *)
(* scanners in scripts/scan_dependencies.                                  *)
(*                                                                         *)
(* Python values:                                                          *)
(*   str        a sequence of code points, "CI" is <<67, 73>>, so that     *)
(*              strip(), lower() and the lexicographic order of strings    *)
(*              are computed and not assumed;                              *)
(*   optional   a value that may be None: None is <<>>, a value v is <<v>>;*)
(*   list       a sequence; dict  a sequence of [key, val] entries in      *)
(*              insertion order (the iteration order of a Python dict).    *)
(***************************************************************************)
EXTENDS Integers, Sequences, FiniteSets, TLC

VARIABLES
    pc,          \* position of the running function
    collected,   \* latest_test_signals: `signals` as steps 1 and 2 left it
    dedup,       \* latest_test_signals: list(dedup.values()) of step 3
    signals,     \* latest_test_signals: the returned list `signals`
    overall,     \* latest_test_signals: the returned overall signal
    repos,       \* build_cards: the listing returned by list_repos(ORG)
    idx,         \* build_cards: index of the next repository of the listing
    items,       \* build_cards: the local list `items` (the cards)
    status,      \* priority: argument
    conclusion,  \* priority: argument
    rank,        \* priority: returned value
    calls,       \* build_cards: the per-repository functions called, by repository
    ref,         \* latest_test_signals: the argument ref
    seen,        \* latest_test_signals: ids of the workflows the loop has taken so far
    step,        \* latest_test_signals: the last step of the collection
    max_items_arg, \* latest_test_signals: the argument max_items
    cache,       \* gh: _gh_cache, the entries [key, data]
    first,       \* gh: what the first call of each cache key came to (history)
    call,        \* the last call of gh, of a probe or of add_dependency
    site,        \* index of the next call site, or of the next probe
    clock,       \* scanners: time.time()
    dependencies, \* discover_repo_dependencies: the local set `dependencies`
    returned,    \* what detect_version, or gh of a scanner, returned
    log          \* detect_version: the probes so far (history)

vars == <<pc, collected, dedup, signals, overall, repos, idx, items, status, conclusion, rank,
          calls, ref, seen, step, max_items_arg, cache, first, call, site, clock, dependencies,
                   returned, log>>

\* the state of the collection steps of latest_test_signals
collection == <<ref, seen, step>>

\* the state of gh, of detect_version, of the scanners and of
\* discover_repo_dependencies
others == <<max_items_arg, cache, first, call, site, clock, dependencies, returned, log>>

\* no step of the collection taken yet
NoStep ==
    [kind |-> "none", phase1 |-> "running", wf |-> <<>>, request |-> <<>>,
     runs |-> [sent |-> FALSE, raises |-> FALSE, data |-> <<>>],
     jobs |-> [sent |-> FALSE, raises |-> FALSE, data |-> <<>>],
     head |-> [sent |-> FALSE, raises |-> FALSE, data |-> <<>>],
     checks |-> [sent |-> FALSE, raises |-> FALSE, data |-> <<>>], added |-> <<>>]

(* Python values *)

None == <<>>
Some(v) == <<v>>
IsNone(x) == x = None
Val(x) == x[1]

EmptyStr == <<>>

\* x or "" for an optional string x (None and "" are both falsy)
OrEmpty(x) == IF IsNone(x) THEN EmptyStr ELSE Val(x)

\* a < b for two Python strings: lexicographic order of the code points
StrLess(a, b) ==
    \E k \in 1..(Len(b)) :
        /\ k <= Len(a) + 1
        /\ \A j \in 1..(k - 1) : a[j] = b[j]
        /\ (k = Len(a) + 1 \/ a[k] < b[k])

\* str.lower() on ASCII text
LowerChar(c) == IF c >= 65 /\ c <= 90 THEN c + 32 ELSE c
Lower(s) == <<>> \o [k \in 1..Len(s) |-> LowerChar(s[k])]

\* str.strip(): surrounding ASCII whitespace removed
IsSpace(c) == c \in {9, 10, 11, 12, 13, 32}
Strip(s) ==
    LET keep == {k \in 1..Len(s) : ~IsSpace(s[k])}
    IN  IF keep = {} THEN EmptyStr
        ELSE LET lo == CHOOSE k \in keep : \A j \in keep : k <= j
                 hi == CHOOSE k \in keep : \A j \in keep : j <= k
             IN  SubSeq(s, lo, hi)

\* list.sort(key=...): stable; Less(x, y) is key(x) < key(y).  With reverse=True
\* Python keeps equal keys in their original order, so a descending sort is a
\* stable sort under the converse order.
StableSort(s, Less(_, _)) ==
    LET n == Len(s)
        lt == <<>> \o [i \in 1..n |-> <<>> \o [j \in 1..n |-> Less(s[i], s[j])]]
        before(i) == {j \in 1..n : lt[j][i] \/ (j < i /\ ~lt[i][j])}
        place == <<>> \o [i \in 1..n |-> Cardinality(before(i)) + 1]
    IN  <<>> \o [k \in 1..n |-> s[CHOOSE i \in 1..n : place[i] = k]]

\* s[:n]
Take_last(s, n) == SubSeq(s, IF n < Len(s) THEN Len(s) - n + 1 ELSE 1, Len(s))

Take(s, n) == SubSeq(s, 1, IF n < Len(s) THEN n ELSE Len(s))

(* priority(status, conclusion) *)

priority_swapped(st, co) ==
    IF st \in {Some("in_progress"), Some("queued")} THEN 1
    ELSE IF co \in {Some("failure"), Some("timed_out"), Some("cancelled"),
                    Some("action_required")} THEN 0
    ELSE IF co = Some("success") THEN 3
    ELSE 2

priority(st, co) ==
    IF co \in {Some("failure"), Some("timed_out"), Some("cancelled"),
               Some("action_required")} THEN 0
    ELSE IF st \in {Some("in_progress"), Some("queued")} THEN 1
    ELSE IF co = Some("success") THEN 3
    ELSE 2

Prio(s) == priority(s.status, s.conclusion)


(* Signals: {label, status, conclusion, html_url, updated_at, source} *)

Signal(label, st, co, url, upd, src) ==
    [label |-> label, status |-> st, conclusion |-> co, html_url |-> url,
     updated_at |-> upd, source |-> src]

\* s["label"].strip().lower()
DedupKey_no_lower(s) == Strip(s.label)

DedupKey(s) == Lower(Strip(s.label))

\* the dict `dedup`: entries [key, val] in insertion order
DictHas(d, key) == \E i \in 1..Len(d) : d[i].key = key
DictIndex(d, key) == CHOOSE i \in 1..Len(d) : d[i].key = key
DictGet(d, key) == d[DictIndex(d, key)].val
DictPut(d, key, v) ==
    IF DictHas(d, key) THEN [d EXCEPT ![DictIndex(d, key)].val = v]
    ELSE Append(d, [key |-> key, val |-> v])
DictValues(d) == <<>> \o [i \in 1..Len(d) |-> d[i].val]

\* the body of `for s in signals:` at step 3
DedupStep_keep_first(d, s) ==
    IF ~DictHas(d, DedupKey(s)) THEN DictPut(d, DedupKey(s), s) ELSE d

DedupStep(d, s) ==
    LET key == DedupKey(s)
    IN  IF \/ ~DictHas(d, key)
           \/ StrLess(OrEmpty(DictGet(d, key).updated_at), OrEmpty(s.updated_at))
        THEN DictPut(d, key, s)
        ELSE d

RECURSIVE DedupLoop(_, _)
DedupLoop(d, sigs) ==
    IF sigs = <<>> THEN d
    ELSE DedupLoop(DedupStep(d, Head(sigs)), Tail(sigs))

Reverse(s) == <<>> \o [k \in 1..Len(s) |-> s[Len(s) + 1 - k]]

Deduplicate_newest_first(sigs) == Reverse(DictValues(DedupLoop(<<>>, sigs)))

\* step 3: dedup = {}; for s in signals: ...; signals = list(dedup.values())
Deduplicate(sigs) == DictValues(DedupLoop(<<>>, sigs))

\* the two sort keys of a signal
Recency(s) == OrEmpty(s.updated_at)
Newer(a, b) == StrLess(Recency(b), Recency(a))
Older(a, b) == StrLess(Recency(a), Recency(b))
Worse(a, b) == Prio(a) < Prio(b)

SortSignals_recency_last(sigs) == StableSort(StableSort(sigs, Worse), Newer)

SortSignals_oldest_first(sigs) == StableSort(StableSort(sigs, Older), Worse)

SortSignals_newest_first_only(sigs) == StableSort(sigs, Newer)

\* signals.sort(key=updated_at or "", reverse=True); signals.sort(key=priority)
SortSignals(sigs) == StableSort(StableSort(sigs, Newer), Worse)

\* the synthetic overall of a repository without signals
UnknownSignal_completed ==
    Signal(<<84, 101, 115, 116, 115>>, Some("completed"), Some("success"), None, None, "none")

UnknownSignal ==
    Signal(<<84, 101, 115, 116, 115>>, Some("unknown"), None, None, None, "none")

\* key of min(): (priority(...), -(updated_at is not None))
OverallKey(s) == <<Prio(s), IF IsNone(s.updated_at) THEN 0 ELSE -1>>
KeyLess(a, b) == a[1] < b[1] \/ (a[1] = b[1] /\ a[2] < b[2])

\* min(signals, key=...): the first element whose key is minimal
MinSignal_undated_first(sigs) ==
    LET key(s) == <<Prio(s), IF IsNone(s.updated_at) THEN -1 ELSE 0>>
        i == CHOOSE i \in 1..Len(sigs) :
                /\ \A j \in 1..Len(sigs) : ~KeyLess(key(sigs[j]), key(sigs[i]))
                /\ \A j \in 1..(i - 1) : KeyLess(key(sigs[i]), key(sigs[j]))
    IN  sigs[i]

MinSignal(sigs) ==
    LET i == CHOOSE i \in 1..Len(sigs) :
                /\ \A j \in 1..Len(sigs) : ~KeyLess(OverallKey(sigs[j]), OverallKey(sigs[i]))
                /\ \A j \in 1..(i - 1) : KeyLess(OverallKey(sigs[i]), OverallKey(sigs[j]))
    IN  sigs[i]

SelectOverall(sigs) == IF sigs # <<>> THEN MinSignal(sigs) ELSE UnknownSignal

\* steps 3.. of latest_test_signals on the collected candidates
latest_test_signals(cands, max_items) ==
    LET unique == Deduplicate(cands)
        sorted == Take(SortSignals(unique), max_items)
    IN  [dedup |-> unique, signals |-> sorted, overall |-> SelectOverall(sorted)]

(* build_cards *)

\* default_branch(owner, repo): r is what gh returned for the repository, None
\* after a 403, 404 or 409; the object holds its default_branch or lacks the key
default_branch(r) ==
    IF IsNone(r) THEN None
    ELSE IF IsNone(Val(r)) THEN Some("main")
    ELSE Val(r)

\* "—", the version of a card whose version was not detected
NoVersion == <<8212>>

Card_always_has_tests(repo, branch, ver, ret) ==
    [repo |-> repo, default_branch |-> branch,
     version |-> IF IsNone(ver) \/ Val(ver) = EmptyStr THEN NoVersion ELSE Val(ver),
     overall |-> ret.overall,
     subtests |-> ret.signals, has_tests |-> TRUE]

\* items.append({...}): the fields of a card on the branch, the version and the
\* signals; ver is the first value detect_version returned
Card(repo, branch, ver, ret) ==
    [repo |-> repo, default_branch |-> branch,
     version |-> IF IsNone(ver) \/ Val(ver) = EmptyStr THEN NoVersion ELSE Val(ver),
     overall |-> ret.overall,
     subtests |-> ret.signals, has_tests |-> ret.signals # <<>>]

\* the functions the loop body calls for a repository, in their order
RepoCalls == <<"default_branch", "detect_version", "latest_test_signals", "get_dependencies">>

\* the four sort keys of a card
ByName(a, b) == StrLess(Lower(a.repo), Lower(b.repo))
ByRecency(a, b) == StrLess(OrEmpty(b.overall.updated_at), OrEmpty(a.overall.updated_at))
ByPriority(a, b) == Prio(a.overall) < Prio(b.overall)
GroupRank(it) == IF it.has_tests THEN 0 ELSE 1
ByGroup(a, b) == GroupRank(a) < GroupRank(b)

OrderCards_group_first(cards) ==
    LET byGroup == StableSort(cards, ByGroup)
        byPriority == StableSort(byGroup, ByPriority)
        byRecency == StableSort(byPriority, ByRecency)
    IN  StableSort(byRecency, ByName)

\* the four items.sort(...) of build_cards, in their order
OrderCards(cards) ==
    LET byName == StableSort(cards, ByName)
        byRecency == StableSort(byName, ByRecency)
        byPriority == StableSort(byRecency, ByPriority)
    IN  StableSort(byPriority, ByGroup)

(* Inputs *)

\* number of candidates collected for one repository
MaxSignals == 3

\* the default of the parameter max_items, and the value build_cards passes
MaxItems == 12

\* timestamps: "1" and "2" stand for two ISO-8601 instants, None for a missing one
Stamps == {<<49>>, <<50>>}
UpdatedAts == {None} \cup {Some(t) : t \in Stamps}

Failure == <<Some("completed"), Some("failure")>>
InProgress == <<Some("in_progress"), None>>
Neutral == <<Some("completed"), Some("neutral")>>
Success == <<Some("completed"), Some("success")>>

Signals(labels, outcomes) ==
    {Signal(l, o[1], o[2], None, u, "checks") : l \in labels, o \in outcomes, u \in UpdatedAts}

\* candidates whose labels collide after normalisation: "CI", "ci " and "unit"
DedupInputs == Signals({<<67, 73>>, <<99, 105, 32>>, <<117, 110, 105, 116>>},
                       {Failure, Success})

\* labels of the candidates of the ranking, by position: "CI", "unit", "e2e",
\* "Tests " and "pytest"
RankLabels == <<<<67, 73>>, <<117, 110, 105, 116>>, <<101, 50, 101>>,
                <<84, 101, 115, 116, 115, 32>>, <<112, 121, 116, 101, 115, 116>>>>

\* candidates of every priority class
RankInputs == Signals({RankLabels[k] : k \in 1..Len(RankLabels)},
                      {Failure, InProgress, Neutral, Success})

\* arguments of priority: the values the API documents, a missing one and an
\* unrecognised one
Statuses == {None} \cup {Some(x) : x \in {"queued", "in_progress", "completed", "waiting",
                                          "requested", "pending", "unknown", "bogus"}}
Conclusions == {None} \cup {Some(x) : x \in {"success", "failure", "neutral", "cancelled",
                                             "skipped", "timed_out", "action_required",
                                             "stale", "bogus"}}

\* repository names: "api", "Beta" and "core"
RepoNames == {<<97, 112, 105>>, <<66, 101, 116, 97>>, <<99, 111, 114, 101>>}
DotGithub == <<46, 103, 105, 116, 104, 117, 98>>

\* the listings list_repos can return: repositories of distinct names, each
\* archived or not, in any order
Listings ==
    {l \in UNION {[1..n -> [name : RepoNames, archived : BOOLEAN]] :
                     n \in 0..Cardinality(RepoNames)} :
        \A i, j \in 1..Len(l) : l[i].name = l[j].name => i = j}

\* what gh returns for a repository: None (access denied), or its object
RepoResponses == {None, Some(Some("main"))}

\* the candidates collected for one repository of the listing
CardInputs ==
    {<<>>} \cup {<<s>> : s \in Signals({<<67, 73>>}, {Failure, InProgress, Success})}

\* no call made yet
NoCall == [kind |-> "none"]

\* the state of the functions a specification does not run
OthersIdle ==
    /\ max_items_arg = MaxItems
    /\ cache = {}
    /\ first = {}
    /\ call = NoCall
    /\ site = 1
    /\ clock = 0
    /\ dependencies = {}
    /\ returned = None
    /\ log = <<>>

(* latest_test_signals, from the collected candidates to the return *)

InitSignals ==
    /\ pc = "collect"
    /\ collected = <<>>
    /\ dedup = <<>>
    /\ signals = <<>>
    /\ overall = None
    /\ repos = <<>>
    /\ idx = 1
    /\ items = <<>>
    /\ status = None
    /\ conclusion = None
    /\ rank = -1
    /\ calls = {}
    /\ OthersIdle
    /\ ref = None
    /\ seen = {}
    /\ step = NoStep

\* steps 1 and 2: signals.append({...})
Collect(s) ==
    /\ pc = "collect"
    /\ Len(collected) < MaxSignals
    /\ collected' = Append(collected, s)
    /\ UNCHANGED <<pc, dedup, signals, overall, repos, idx, items, status, conclusion, rank, calls, collection,
                   others>>

\* step 3 to the return: deduplicate, sort, cut, select overall
LatestTestSignals ==
    /\ pc = "collect"
    /\ LET ret == latest_test_signals(collected, max_items_arg)
       IN  /\ dedup' = ret.dedup
           /\ signals' = ret.signals
           /\ overall' = ret.overall
    /\ pc' = "returned"
    /\ UNCHANGED <<collected, repos, idx, items, status, conclusion, rank, calls, collection,
                   others>>

NextSignals ==
    \/ \E s \in DedupInputs : Collect(s)
    \/ LatestTestSignals

SpecSignals == InitSignals /\ [][NextSignals]_vars

\* Steps 1 and 2, for the ranking: the k-th candidate carries the k-th label.
\* Step 3 leaves a list of pairwise distinct keys as it is, and neither sort
\* nor min() reads a label, so these inputs give the sort every sequence of
\* (status, conclusion, updated_at) it can be given.
CollectRanked(s) ==
    /\ Collect(s)
    /\ Len(collected) < Len(RankLabels)
    /\ s.label = RankLabels[Len(collected) + 1]

NextRank ==
    \/ \E s \in RankInputs : CollectRanked(s)
    \/ LatestTestSignals

SpecRank == InitSignals /\ [][NextRank]_vars

(* latest_test_signals with a max_items below the number of signals *)

\* values of max_items that cut a list of MaxSignals signals; every call of the
\* program passes a positive max_items
CutSizes == 1..(MaxSignals - 1)

InitCut ==
    /\ pc = "collect"
    /\ max_items_arg \in CutSizes
    /\ collected = <<>>
    /\ dedup = <<>>
    /\ signals = <<>>
    /\ overall = None
    /\ repos = <<>>
    /\ idx = 1
    /\ items = <<>>
    /\ status = None
    /\ conclusion = None
    /\ rank = -1
    /\ calls = {}
    /\ ref = None
    /\ seen = {}
    /\ step = NoStep
    /\ cache = {}
    /\ first = {}
    /\ call = NoCall
    /\ site = 1
    /\ clock = 0
    /\ dependencies = {}
    /\ returned = None
    /\ log = <<>>

SpecCut == InitCut /\ [][NextRank]_vars

(* build_cards, from the listing to the ordered cards *)

Init ==
    /\ pc = "loop"
    /\ repos \in Listings
    /\ idx = 1
    /\ items = <<>>
    /\ collected = <<>>
    /\ dedup = <<>>
    /\ signals = <<>>
    /\ overall = None
    /\ status = None
    /\ conclusion = None
    /\ rank = -1
    /\ calls = {}
    /\ OthersIdle
    /\ ref = None
    /\ seen = {}
    /\ step = NoStep

Skipped_dotgithub_only(r) == r.name = DotGithub

Skipped(r) == r.archived \/ r.name = DotGithub

\* if r.get("archived") or repo == ".github": continue
SkipRepo ==
    /\ pc = "loop"
    /\ idx <= Len(repos)
    /\ Skipped(repos[idx])
    /\ idx' = idx + 1
    /\ UNCHANGED <<pc, collected, dedup, signals, overall, repos, items, status,
                   conclusion, rank, calls, collection,
                   others>>

BuildCard_drops_denied(r, ver, cands) ==
    /\ pc = "loop"
    /\ idx <= Len(repos)
    /\ ~Skipped(repos[idx])
    /\ IsNone(r) => (ver = None /\ cands = <<>>)
    /\ calls' = calls \cup {<<repos[idx].name, RepoCalls[k]>> : k \in 1..Len(RepoCalls)}
    /\ LET ret == latest_test_signals(cands, MaxItems)
       IN  /\ items' = IF IsNone(r) THEN items
                       ELSE Append(items, Card(repos[idx].name, default_branch(r), ver, ret))
           /\ collected' = cands
           /\ dedup' = ret.dedup
           /\ signals' = ret.signals
           /\ overall' = ret.overall
    /\ idx' = idx + 1
    /\ UNCHANGED <<pc, repos, status, conclusion, rank, collection,
                   others>>

\* one pass of the loop body: r is the answer of gh for the repository, ver the
\* version detect_version finds and cands the candidates latest_test_signals
\* collects; a repository that denies access yields no version and no candidate
BuildCard(r, ver, cands) ==
    /\ pc = "loop"
    /\ idx <= Len(repos)
    /\ ~Skipped(repos[idx])
    /\ IsNone(r) => (ver = None /\ cands = <<>>)
    /\ calls' = calls \cup {<<repos[idx].name, RepoCalls[k]>> : k \in 1..Len(RepoCalls)}
    /\ LET ret == latest_test_signals(cands, MaxItems)
       IN  /\ items' = Append(items, Card(repos[idx].name, default_branch(r), ver, ret))
           /\ collected' = cands
           /\ dedup' = ret.dedup
           /\ signals' = ret.signals
           /\ overall' = ret.overall
    /\ idx' = idx + 1
    /\ UNCHANGED <<pc, repos, status, conclusion, rank, collection,
                   others>>

\* gh raises on an HTTP error other than 403, 404 and 409: build_cards ends
\* without a result
DefaultBranchRaises ==
    /\ pc = "loop"
    /\ idx <= Len(repos)
    /\ ~Skipped(repos[idx])
    /\ calls' = calls \cup {<<repos[idx].name, RepoCalls[1]>>}
    /\ pc' = "raised"
    /\ UNCHANGED <<collected, dedup, signals, overall, repos, idx, items, status,
                   conclusion, rank, collection,
                   others>>

\* the four sorts and the return
ReturnCards ==
    /\ pc = "loop"
    /\ idx > Len(repos)
    /\ items' = OrderCards(items)
    /\ pc' = "done"
    /\ UNCHANGED <<collected, dedup, signals, overall, repos, idx, status, conclusion, rank, calls, collection,
                   others>>

Next ==
    \/ SkipRepo
    \/ \E r \in RepoResponses, cands \in CardInputs : BuildCard(r, None, cands)
    \/ DefaultBranchRaises
    \/ ReturnCards

Spec == Init /\ [][Next]_vars

(* build_cards, on listings that hold the repository .github *)

\* listings of distinct names among "api", "Beta" and ".github"
RepoListings ==
    LET names == {<<97, 112, 105>>, <<66, 101, 116, 97>>, DotGithub}
    IN  {l \in UNION {[1..n -> [name : names, archived : BOOLEAN]] :
                         n \in 0..Cardinality(names)} :
            \A i, j \in 1..Len(l) : l[i].name = l[j].name => i = j}

\* what detect_version returns first: None, or a version ("1.0")
Versions == {None, Some(<<49, 46, 48>>)}

\* the candidates collected for one repository: none, or a failed "CI"
RepoInputs == {<<>>, <<Signal(<<67, 73>>, Failure[1], Failure[2], None, None, "checks")>>}

InitRepos ==
    /\ pc = "loop"
    /\ repos \in RepoListings
    /\ idx = 1
    /\ items = <<>>
    /\ collected = <<>>
    /\ dedup = <<>>
    /\ signals = <<>>
    /\ overall = None
    /\ status = None
    /\ conclusion = None
    /\ rank = -1
    /\ calls = {}
    /\ OthersIdle
    /\ ref = None
    /\ seen = {}
    /\ step = NoStep

NextRepos ==
    \/ SkipRepo
    \/ \E r \in RepoResponses, ver \in Versions, cands \in RepoInputs : BuildCard(r, ver, cands)
    \/ DefaultBranchRaises
    \/ ReturnCards

SpecRepos == InitRepos /\ [][NextRepos]_vars

(* latest_test_signals, steps 1 and 2: the classifier *)

\* sub occurs in s
Contains(s, sub) ==
    \E i \in 0..(Len(s) - Len(sub)) : SubSeq(s, i + 1, i + Len(sub)) = sub

\* the alternatives of TEST_WORKFLOW_RE: test, tests, pytest, unit, integration,
\* e2e, ci, TestSuites
TEST_WORKFLOW_RE ==
    {<<116, 101, 115, 116>>,
     <<116, 101, 115, 116, 115>>,
     <<112, 121, 116, 101, 115, 116>>,
     <<117, 110, 105, 116>>,
     <<105, 110, 116, 101, 103, 114, 97, 116, 105, 111, 110>>,
     <<101, 50, 101>>,
     <<99, 105>>,
     <<84, 101, 115, 116, 83, 117, 105, 116, 101, 115>>}

\* the alternatives of NON_TEST_HINT: doc, docs, page, pages, website, release,
\* docker, publish, deploy, package, lint, format, codeql
NON_TEST_HINT ==
    {<<100, 111, 99>>,
     <<100, 111, 99, 115>>,
     <<112, 97, 103, 101>>,
     <<112, 97, 103, 101, 115>>,
     <<119, 101, 98, 115, 105, 116, 101>>,
     <<114, 101, 108, 101, 97, 115, 101>>,
     <<100, 111, 99, 107, 101, 114>>,
     <<112, 117, 98, 108, 105, 115, 104>>,
     <<100, 101, 112, 108, 111, 121>>,
     <<112, 97, 99, 107, 97, 103, 101>>,
     <<108, 105, 110, 116>>,
     <<102, 111, 114, 109, 97, 116>>,
     <<99, 111, 100, 101, 113, 108>>}

\* pattern.search(s) of a pattern compiled with re.I from alternatives: one of
\* them occurs in s, letter case ignored
Search(pattern, s) ==
    LET lowered == Lower(s)
    IN  \E kw \in pattern : Contains(lowered, Lower(kw))

WorkflowIsTestLike_name_only(name, path) ==
    /\ Search(TEST_WORKFLOW_RE, name) \/ Search(TEST_WORKFLOW_RE, path)
    /\ ~Search(NON_TEST_HINT, name)

\* the two tests on a workflow: the loop goes on unless both let it pass
WorkflowIsTestLike(name, path) ==
    /\ Search(TEST_WORKFLOW_RE, name) \/ Search(TEST_WORKFLOW_RE, path)
    /\ ~(Search(NON_TEST_HINT, name) \/ Search(NON_TEST_HINT, path))

\* the test on the name of a job and of a check-run
IsTestLike(name) == Search(TEST_WORKFLOW_RE, name) /\ ~Search(NON_TEST_HINT, name)

(* latest_test_signals, steps 1 and 2: the answers of the API *)

\* what a call of gh ends with: an exception (an HTTP error other than 403, 404
\* and 409), None (403, 404 or 409), or the decoded answer
Raise == [sent |-> TRUE, raises |-> TRUE, data |-> None]
Denied == [sent |-> TRUE, raises |-> FALSE, data |-> None]
Ok(x) == [sent |-> TRUE, raises |-> FALSE, data |-> Some(x)]

\* gh(...).get(...) raises: gh raised, or returned None, which has no get
Failed(resp) == resp.raises \/ IsNone(resp.data)

\* the request was not made
NoAnswer == [sent |-> FALSE, raises |-> FALSE, data |-> None]

\* the argument ref: a branch ("main"), or None for a repository that denied
\* default_branch
Refs == {None, Some(<<109, 97, 105, 110>>)}

\* ".github/workflows/"
WorkflowsDir == <<46, 103, 105, 116, 104, 117, 98, 47, 119, 111, 114, 107, 102, 108, 111, 119, 115, 47>>

\* workflows of a repository: "CI" in ci.yml, "Integration Tests" in
\* release.yml, "Deploy Docs" in docs.yml and a workflow without a name in
\* unit.yml
WorkflowDefs ==
    {[id |-> 1, name |-> Some(<<67, 73>>),
      path |-> Some(WorkflowsDir \o <<99, 105, 46, 121, 109, 108>>)],
     [id |-> 2, name |-> Some(<<73, 110, 116, 101, 103, 114, 97, 116, 105, 111, 110, 32, 84, 101, 115, 116, 115>>),
      path |-> Some(WorkflowsDir \o <<114, 101, 108, 101, 97, 115, 101, 46, 121, 109, 108>>)],
     [id |-> 3, name |-> Some(<<68, 101, 112, 108, 111, 121, 32, 68, 111, 99, 115>>),
      path |-> Some(WorkflowsDir \o <<100, 111, 99, 115, 46, 121, 109, 108>>)],
     [id |-> 4, name |-> None,
      path |-> Some(WorkflowsDir \o <<117, 110, 105, 116, 46, 121, 109, 108>>)]}

\* runs of a workflow: the latest one, and an older one that failed
LatestRunDef ==
    [id |-> 20, status |-> Some("completed"), conclusion |-> Some("success"),
     html_url |-> None, updated_at |-> Some(<<50>>)]
OlderRunDef ==
    [id |-> 10, status |-> Some("completed"), conclusion |-> Some("failure"),
     html_url |-> None, updated_at |-> Some(<<49>>)]

\* the lists of runs the listing of a workflow can hold
RunListings == {<<>>, <<LatestRunDef>>, <<LatestRunDef, OlderRunDef>>}

\* jobs of a run: "unit", "build-and-test" and "smoke"
JobDefs ==
    {[name |-> <<117, 110, 105, 116>>, status |-> Some("completed"),
      conclusion |-> Some("success"), html_url |-> None, url |-> None,
      completed_at |-> Some(<<50>>), started_at |-> Some(<<49>>)],
     [name |-> <<98, 117, 105, 108, 100, 45, 97, 110, 100, 45, 116, 101, 115, 116>>,
      status |-> Some("in_progress"), conclusion |-> None, html_url |-> None, url |-> None,
      completed_at |-> None, started_at |-> None],
     [name |-> <<115, 109, 111, 107, 101>>, status |-> Some("completed"),
      conclusion |-> Some("success"), html_url |-> None, url |-> None,
      completed_at |-> Some(<<49>>), started_at |-> Some(<<49>>)]}

\* check-runs of a commit: "smoke", "lint tests" and "CI"
CheckDefs ==
    {[name |-> <<115, 109, 111, 107, 101>>, status |-> Some("completed"),
      conclusion |-> Some("success"), html_url |-> None, details_url |-> None,
      completed_at |-> Some(<<50>>), started_at |-> Some(<<49>>)],
     [name |-> <<108, 105, 110, 116, 32, 116, 101, 115, 116, 115>>,
      status |-> Some("completed"), conclusion |-> Some("failure"), html_url |-> None,
      details_url |-> None, completed_at |-> Some(<<49>>), started_at |-> Some(<<49>>)],
     [name |-> <<67, 73>>, status |-> Some("completed"), conclusion |-> Some("failure"),
      html_url |-> None, details_url |-> None, completed_at |-> None,
      started_at |-> Some(<<49>>)]}

\* the lists without repetition of the elements of a set
ListsOf(S) ==
    {l \in UNION {[1..n -> S] : n \in 0..Cardinality(S)} :
        \A i, j \in 1..Len(l) : l[i] = l[j] => i = j}

JobListings == ListsOf(JobDefs)
CheckListings == ListsOf(CheckDefs)

\* the workflows of WorkflowDefs whose runs the loop requests
TestLikeWorkflows ==
    {wf \in WorkflowDefs : WorkflowIsTestLike(OrEmpty(wf.name), OrEmpty(wf.path))}

\* the answers of gh to the four listings and to the commit of ref: the sha of
\* the commit is "abc" or missing; the workflows of a listing are drawn one by
\* one as the loop takes them
WorkflowsAnswers == {Raise, Denied, Ok(<<>>)}
RunsAnswers == {Raise, Denied} \cup {Ok(l) : l \in RunListings}
JobsAnswers == {Raise, Denied} \cup {Ok(l) : l \in JobListings}
HeadAnswers == {Raise, Denied, Ok(None), Ok(Some(<<97, 98, 99>>))}
ChecksAnswers == {Raise, Denied} \cup {Ok(l) : l \in CheckListings}

(* latest_test_signals, steps 1 and 2: the collection *)

\* a or b on optional strings: a unless it is None or empty
Or(a, b) == IF IsNone(a) \/ Val(a) = EmptyStr THEN b ELSE a

\* the signal appended for a job that passes the test
JobSignal(job, run) ==
    Signal(job.name, job.status, job.conclusion, Or(job.html_url, job.url),
           Or(job.completed_at, Or(job.started_at, run.updated_at)), "workflow:job")

\* the signal appended for a run none of whose jobs passed; "Tests" for a
\* workflow without a name
WorkflowSignal(name, run) ==
    Signal(IF name = EmptyStr THEN <<84, 101, 115, 116, 115>> ELSE name,
           run.status, run.conclusion, run.html_url, run.updated_at, "workflow")

\* the signal appended for a check-run that passes the test
CheckSignal(cr) ==
    Signal(cr.name, cr.status, cr.conclusion, Or(cr.html_url, cr.details_url),
           Or(cr.completed_at, cr.started_at), "checks")

\* the answer of a listing as a list: jobs = [] after except Exception
Listed(answer) == IF Failed(answer) THEN <<>> ELSE Val(answer.data)

JobSignals(jobs, run) ==
    LET pass == SelectSeq(jobs, LAMBDA job : IsTestLike(job.name))
    IN  <<>> \o [k \in 1..Len(pass) |-> JobSignal(pass[k], run)]

CheckSignals(checks) ==
    LET pass == SelectSeq(checks, LAMBDA cr : IsTestLike(cr.name))
    IN  <<>> \o [k \in 1..Len(pass) |-> CheckSignal(pass[k])]

LatestRun_oldest(runs) == runs[Len(runs)]

\* run = runs[0]
LatestRun(runs) == runs[1]

RunSignals_always_workflow(name, run, jobsAnswer) ==
    JobSignals(Listed(jobsAnswer), run) \o <<WorkflowSignal(name, run)>>

\* the signals of one run: those of its jobs, or the one of the run if
\* added_job stayed False
RunSignals(name, run, jobsAnswer) ==
    LET fromJobs == JobSignals(Listed(jobsAnswer), run)
    IN  IF fromJobs # <<>> THEN fromJobs ELSE <<WorkflowSignal(name, run)>>

\* the request of the runs of a workflow
RunsRequest(wf, branch) == [workflow |-> wf.id, branch |-> branch, per_page |-> 1]

AfterWorkflowFailure_continues == "workflow"

AfterWorkflowFailure_propagates == "raised"

AfterWorkflowFailure_returns == "collect"

\* except Exception: pass, where an exception of step 1 leads
AfterWorkflowFailure == "checks"

\* one step of the collection: its kind, what step 1 came to, the workflow taken,
\* the requests made with their answers, and the signals appended
Step(kind, phase1, wf, request, runs, jobs, head, checks, added) ==
    [kind |-> kind, phase1 |-> phase1, wf |-> wf, request |-> request, runs |-> runs,
     jobs |-> jobs, head |-> head, checks |-> checks, added |-> added]

InitCollect ==
    /\ pc = "workflows"
    /\ ref \in Refs
    /\ seen = {}
    /\ step = NoStep
    /\ collected = <<>>
    /\ dedup = <<>>
    /\ signals = <<>>
    /\ overall = None
    /\ repos = <<>>
    /\ idx = 1
    /\ items = <<>>
    /\ status = None
    /\ conclusion = None
    /\ rank = -1
    /\ calls = {}
    /\ OthersIdle

\* wfs = gh(...).get("workflows", [])
ListWorkflows(answer) ==
    /\ pc = "workflows"
    /\ pc' = IF Failed(answer) THEN AfterWorkflowFailure ELSE "workflow"
    /\ step' = Step("list", IF Failed(answer) THEN "failed" ELSE "running", None, None,
                    NoAnswer, NoAnswer, NoAnswer, NoAnswer, <<>>)
    /\ UNCHANGED <<collected, dedup, signals, overall, repos, idx, items, status,
                   conclusion, rank, calls, ref, seen,
                   others>>

\* one pass of for wf in wfs: runsAnswer and jobsAnswer are the answers of gh,
\* NoAnswer for a request the pass does not make
TakeWorkflow(wf, runsAnswer, jobsAnswer) ==
    /\ pc = "workflow"
    /\ wf.id \notin seen
    /\ LET name == OrEmpty(wf.name)
           passes == wf \in TestLikeWorkflows
           fails == runsAnswer.sent /\ Failed(runsAnswer)
           runs == Listed(runsAnswer)
           added == IF runs # <<>> THEN RunSignals(name, LatestRun(runs), jobsAnswer)
                    ELSE <<>>
       IN  /\ runsAnswer.sent <=> passes
           /\ jobsAnswer.sent <=> runs # <<>>
           /\ collected' = collected \o added
           /\ pc' = IF fails THEN AfterWorkflowFailure ELSE "workflow"
           /\ step' = Step("workflow", IF fails THEN "failed" ELSE "running", Some(wf),
                           IF passes THEN Some(RunsRequest(wf, ref)) ELSE None,
                           runsAnswer, jobsAnswer, NoAnswer, NoAnswer, added)
    /\ seen' = IF runsAnswer.sent /\ Failed(runsAnswer) THEN {} ELSE seen \cup {wf.id}
    /\ UNCHANGED <<dedup, signals, overall, repos, idx, items, status, conclusion, rank,
                   calls, ref,
                   others>>

\* the end of for wf in wfs
EndWorkflows ==
    /\ pc = "workflow"
    /\ pc' = "checks"
    /\ seen' = {}
    /\ step' = Step("end", "complete", None, None, NoAnswer, NoAnswer, NoAnswer, NoAnswer, <<>>)
    /\ UNCHANGED <<collected, dedup, signals, overall, repos, idx, items, status,
                   conclusion, rank, calls, ref,
                   others>>

\* step 2: headAnswer is the answer of gh in get_head_sha, checksAnswer the one
\* to the request of the check-runs, NoAnswer if it is not made
CheckRuns(headAnswer, checksAnswer) ==
    /\ pc = "checks"
    /\ LET sha == IF Failed(headAnswer) THEN None ELSE Val(headAnswer.data)
           fetch == ~headAnswer.raises /\ sha # None /\ Val(sha) # EmptyStr
           added == IF fetch THEN CheckSignals(Listed(checksAnswer)) ELSE <<>>
       IN  /\ headAnswer.sent
           /\ checksAnswer.sent <=> fetch
           /\ collected' = collected \o added
           /\ step' = Step("checks", step.phase1, None, None, NoAnswer, NoAnswer,
                           headAnswer, checksAnswer, added)
    /\ pc' = "collect"
    /\ UNCHANGED <<dedup, signals, overall, repos, idx, items, status, conclusion, rank,
                   calls, ref, seen,
                   others>>

NextCollect ==
    \/ \E answer \in WorkflowsAnswers : ListWorkflows(answer)
    \/ \E wf \in WorkflowDefs :
          \E runsAnswer \in (IF wf \in TestLikeWorkflows THEN RunsAnswers ELSE {NoAnswer}) :
             \E jobsAnswer \in (IF Listed(runsAnswer) # <<>> THEN JobsAnswers ELSE {NoAnswer}) :
                TakeWorkflow(wf, runsAnswer, jobsAnswer)
    \/ EndWorkflows
    \/ \E headAnswer \in HeadAnswers :
          \E checksAnswer \in (IF Listed(headAnswer) # None THEN ChecksAnswers ELSE {NoAnswer}) :
             CheckRuns(headAnswer, checksAnswer)
    \/ LatestTestSignals

SpecCollect == InitCollect /\ [][NextCollect]_vars

(* gh(url, params) of generate_dashboard.py *)

\* the answers of the API to a request: 200 with a body ("a" or "b"), a status
\* gh turns into None, or another error status
Bodies == {<<97>>, <<98>>}
HttpAnswers ==
    {[status |-> 200, body |-> Some(b)] : b \in Bodies}
        \cup {[status |-> s, body |-> None] : s \in {403, 404, 409, 500}}

\* the statuses after which gh returns None
DeniedStatuses == {403, 404, 409}

\* params of a request, in the order the call writes them: none, branch before
\* per_page (latest_test_signals) and per_page before branch (get_workflow_runs)
GhParams ==
    {None,
     Some(<<<<"branch", "develop">>, <<"per_page", "1">>>>),
     Some(<<<<"per_page", "1">>, <<"branch", "develop">>>>)}

\* the URL of the requests: ".../runs"
GhUrl == <<46, 46, 46, 47, 114, 117, 110, 115>>

\* cache_key = f"{url}:{str(params)}": str of a dict lists the items in
\* insertion order
CacheKey(url, params) == <<url, params>>

\* the entry of a key in the cache, as a set
Cached(c, key) == {e \in c : e.key = key}

gh_always_requests(c, key, http) ==
    IF http.status = 200
    THEN [cache |-> {e \in c : e.key # key} \cup {[key |-> key, data |-> http.body]},
          issued |-> TRUE, result |-> Ok(Val(http.body))]
    ELSE IF http.status \in DeniedStatuses
    THEN [cache |-> c, issued |-> TRUE, result |-> Denied]
    ELSE [cache |-> c, issued |-> TRUE, result |-> Raise]

gh_raises_on_denied(c, key, http) ==
    IF Cached(c, key) # {}
    THEN [cache |-> c, issued |-> FALSE,
          result |-> Ok(Val((CHOOSE e \in Cached(c, key) : TRUE).data))]
    ELSE IF http.status = 200
    THEN [cache |-> c \cup {[key |-> key, data |-> http.body]}, issued |-> TRUE,
          result |-> Ok(Val(http.body))]
    ELSE [cache |-> c, issued |-> TRUE, result |-> Raise]

\* gh on the cache c, http being what the API answers if asked: the cache it
\* leaves, whether a request was issued, and what the call comes to
gh(c, key, http) ==
    IF Cached(c, key) # {}
    THEN [cache |-> c, issued |-> FALSE,
          result |-> Ok(Val((CHOOSE e \in Cached(c, key) : TRUE).data))]
    ELSE IF http.status = 200
    THEN [cache |-> c \cup {[key |-> key, data |-> http.body]}, issued |-> TRUE,
          result |-> Ok(Val(http.body))]
    ELSE IF http.status \in DeniedStatuses
    THEN [cache |-> c, issued |-> TRUE, result |-> Denied]
    ELSE [cache |-> c, issued |-> TRUE, result |-> Raise]

\* number of calls of gh in one execution
MaxCalls == 3

InitGh ==
    /\ pc = "gh"
    /\ cache = {}
    /\ first = {}
    /\ call = NoCall
    /\ site = 1
    /\ max_items_arg = MaxItems
    /\ clock = 0
    /\ dependencies = {}
    /\ returned = None
    /\ log = <<>>
    /\ collected = <<>>
    /\ dedup = <<>>
    /\ signals = <<>>
    /\ overall = None
    /\ repos = <<>>
    /\ idx = 1
    /\ items = <<>>
    /\ status = None
    /\ conclusion = None
    /\ rank = -1
    /\ calls = {}
    /\ ref = None
    /\ seen = {}
    /\ step = NoStep

\* the request identity of a call: the URL and the parameters as a mapping
Identity(url, params) ==
    <<url, IF IsNone(params) THEN {} ELSE {Val(params)[k] : k \in 1..Len(Val(params))}>>

\* the entries of first: the first call of a request identity, the first
\* successful call of a cache key
FirstOfIdentity(id, result) ==
    [of |-> "identity", url |-> id[1], params |-> None, mapping |-> id[2], result |-> result]
FirstOfKey(key, result) ==
    [of |-> "key", url |-> key[1], params |-> key[2], mapping |-> {}, result |-> result]

\* one call of gh; first records what the first call of each request identity
\* and the first successful call of each cache key came to
CallGh(url, params, http) ==
    /\ pc = "gh"
    /\ site <= MaxCalls
    /\ LET key == CacheKey(url, params)
           id == Identity(url, params)
           ret == gh(cache, key, http)
           repeat == \E e \in first : e = FirstOfIdentity(id, e.result)
       IN  /\ cache' = ret.cache
           /\ call' = [kind |-> "gh", key |-> key, id |-> id, http |-> http,
                       repeat |-> repeat, issued |-> ret.issued, result |-> ret.result]
           /\ first' = first
                \cup (IF repeat THEN {} ELSE {FirstOfIdentity(id, ret.result)})
                \cup (IF Failed(ret.result) \/ (\E e \in first : e = FirstOfKey(key, e.result))
                      THEN {}
                      ELSE {FirstOfKey(key, ret.result)})
    /\ site' = site + 1
    /\ UNCHANGED <<pc, collected, dedup, signals, overall, repos, idx, items, status,
                   conclusion, rank, calls, ref, seen, step, max_items_arg, clock, dependencies,
                   returned, log>>

NextGh == \E params \in GhParams, http \in HttpAnswers : CallGh(GhUrl, params, http)

SpecGh == InitGh /\ [][NextGh]_vars

(* build_cards, one call of gh after the other *)

\* the calls of gh that build_cards comes to, in their order: the function and
\* line of the call, whether the caller tests the result before using it
\* (if not data, if r, if tags, ...), and whether the call stands in a try
\* block that catches Exception
Sites ==
    <<[fn |-> "list_repos: org page", line |-> 117, guarded |-> TRUE, caught |-> FALSE],
     [fn |-> "list_repos: user page", line |-> 129, guarded |-> TRUE, caught |-> FALSE],
     [fn |-> "default_branch", line |-> 92, guarded |-> TRUE, caught |-> FALSE],
     [fn |-> "read_file_version", line |-> 149, guarded |-> FALSE, caught |-> TRUE],
     [fn |-> "detect_version: tags", line |-> 509, guarded |-> TRUE, caught |-> TRUE],
     [fn |-> "latest_test_signals: workflows", line |-> 558, guarded |-> FALSE, caught |-> TRUE],
     [fn |-> "latest_test_signals: runs", line |-> 567, guarded |-> FALSE, caught |-> TRUE],
     [fn |-> "latest_test_signals: jobs", line |-> 576, guarded |-> FALSE, caught |-> TRUE],
     [fn |-> "get_head_sha", line |-> 77, guarded |-> TRUE, caught |-> TRUE],
     [fn |-> "latest_test_signals: check-runs", line |-> 611, guarded |-> FALSE, caught |-> TRUE],
     [fn |-> "get_helm_dependencies: chart", line |-> 255, guarded |-> TRUE, caught |-> TRUE],
     [fn |-> "discover_repo_dependencies: tree", line |-> 319, guarded |-> TRUE, caught |-> TRUE],
     [fn |-> "discover_repo_dependencies: .gitmodules", line |-> 323, guarded |-> TRUE, caught |-> TRUE],
     [fn |-> "discover_repo_dependencies: workflows", line |-> 338, guarded |-> TRUE, caught |-> TRUE],
     [fn |-> "discover_repo_dependencies: workflow file", line |-> 341, guarded |-> TRUE, caught |-> TRUE],
     [fn |-> "discover_repo_dependencies: package.json", line |-> 366, guarded |-> TRUE, caught |-> TRUE],
     [fn |-> "get_dependencies: default_branch", line |-> 411, guarded |-> TRUE, caught |-> FALSE],
     [fn |-> "get_dependencies: get_head_sha", line |-> 413, guarded |-> TRUE, caught |-> FALSE],
     [fn |-> "get_dependencies: package.json", line |-> 422, guarded |-> TRUE, caught |-> TRUE],
     [fn |-> "get_dependencies: pyproject.toml", line |-> 446, guarded |-> TRUE, caught |-> TRUE],
     [fn |-> "get_dependencies: requirements.txt", line |-> 473, guarded |-> TRUE, caught |-> TRUE]>>

\* the sites of list_repos, and the site of default_branch(ORG, repo)
OrgSite == 1
UserSite == 2
BranchSite == 3

Outcome_swallows(s, result) ==
    IF result.raises THEN "recovered"
    ELSE IF IsNone(result.data)
    THEN (IF s.guarded THEN "no data" ELSE IF s.caught THEN "recovered" ELSE "raised")
    ELSE "data"

\* what a result of gh comes to at a site: an exception of gh, or the use of
\* None where the caller does not test for it, leaves the caller unless a try
\* block catches it
Outcome(s, result) ==
    IF result.raises THEN (IF s.caught THEN "recovered" ELSE "raised")
    ELSE IF IsNone(result.data)
    THEN (IF s.guarded THEN "no data" ELSE IF s.caught THEN "recovered" ELSE "raised")
    ELSE "data"

\* the organisation ("acme") and the owners of the repositories of a page:
\* "Acme" and "other"
Org == <<97, 99, 109, 101>>
Owners == {<<65, 99, 109, 101>>, <<111, 116, 104, 101, 114>>}

\* the pages an endpoint of the listing answers with: an empty one, or one
\* repository ("api" or "Beta")
RunPages ==
    {<<>>} \cup {<<[name |-> n, archived |-> FALSE, owner |-> o]>> :
                    n \in {<<97, 112, 105>>, <<66, 101, 116, 97>>}, o \in Owners}

\* the record of a call at a site; the request of a site is taken as the first
\* of its key (a cached answer is one of the answers to a first request)
SiteCall(k, http) ==
    LET ret == gh({}, CacheKey(Sites[k].fn, None), http)
    IN  [kind |-> "site", site |-> k, http |-> http, result |-> ret.result,
         outcome |-> Outcome(Sites[k], ret.result)]

InitRun ==
    /\ pc = "list_org"
    /\ repos = <<>>
    /\ idx = 1
    /\ items = <<>>
    /\ site = OrgSite
    /\ call = NoCall
    /\ cache = {}
    /\ first = {}
    /\ max_items_arg = MaxItems
    /\ clock = 0
    /\ dependencies = {}
    /\ returned = None
    /\ log = <<>>
    /\ collected = <<>>
    /\ dedup = <<>>
    /\ signals = <<>>
    /\ overall = None
    /\ status = None
    /\ conclusion = None
    /\ rank = -1
    /\ calls = {}
    /\ ref = None
    /\ seen = {}
    /\ step = NoStep

\* the names of the repositories listed so far
Listed_names == {repos[k].name : k \in 1..Len(repos)}

\* one pass of the first loop of list_repos: page is the body of a 200 answer
ListOrgPage(http, page) ==
    /\ pc = "list_org"
    /\ \A k \in 1..Len(page) : page[k].name \notin Listed_names
    /\ LET c == SiteCall(OrgSite, http)
       IN  /\ call' = c
           /\ IF c.outcome = "raised"
              THEN pc' = "raised" /\ UNCHANGED <<repos, site>>
              ELSE IF c.outcome = "data" /\ page # <<>>
              THEN pc' = pc /\ repos' = repos \o page /\ UNCHANGED site
              ELSE pc' = "list_user" /\ site' = UserSite /\ UNCHANGED repos
    /\ UNCHANGED <<collected, dedup, signals, overall, idx, items, status, conclusion, rank,
                   calls, ref, seen, step, max_items_arg, cache, first, clock, dependencies,
                   returned, log>>

\* one pass of the second loop of list_repos: a repository is appended if its
\* owner is the organisation, letter case ignored, and its name is new
ListUserPage(http, page) ==
    /\ pc = "list_user"
    /\ LET c == SiteCall(UserSite, http)
           new == SelectSeq(page, LAMBDA r : Lower(r.owner) = Lower(Org)
                                             /\ r.name \notin Listed_names)
       IN  /\ call' = c
           /\ IF c.outcome = "raised"
              THEN pc' = "raised" /\ UNCHANGED <<repos, site>>
              ELSE IF c.outcome = "data" /\ page # <<>>
              THEN pc' = pc /\ repos' = repos \o new /\ UNCHANGED site
              ELSE pc' = "body" /\ site' = BranchSite /\ UNCHANGED repos
    /\ UNCHANGED <<collected, dedup, signals, overall, idx, items, status, conclusion, rank,
                   calls, ref, seen, step, max_items_arg, cache, first, clock, dependencies,
                   returned, log>>

\* one call of gh of the loop body of build_cards, for the repository idx: ref
\* is what default_branch returned ("main" for any object), and the card is
\* appended after the last call
CallSite(http) ==
    /\ pc = "body"
    /\ idx <= Len(repos)
    /\ LET c == SiteCall(site, http)
           last == site = Len(Sites)
       IN  /\ call' = c
           /\ pc' = IF c.outcome = "raised" THEN "raised" ELSE pc
           /\ ref' = IF site # BranchSite THEN ref
                     ELSE IF c.outcome = "data" THEN Some(<<109, 97, 105, 110>>) ELSE None
           /\ items' = IF last /\ c.outcome # "raised"
                       THEN Append(items,
                                   [repo |-> repos[idx].name,
                                    default_branch |-> ref])
                       ELSE items
           /\ site' = IF c.outcome = "raised" THEN site
                      ELSE IF last THEN BranchSite ELSE site + 1
           /\ idx' = IF last /\ c.outcome # "raised" THEN idx + 1 ELSE idx
    /\ UNCHANGED <<collected, dedup, signals, overall, repos, status, conclusion, rank,
                   calls, seen, step, max_items_arg, cache, first, clock, dependencies,
                   returned, log>>

\* return items
ReturnRun ==
    /\ pc = "body"
    /\ idx > Len(repos)
    /\ pc' = "done"
    /\ UNCHANGED <<collected, dedup, signals, overall, repos, idx, items, status, conclusion,
                   rank, calls, ref, seen, step, max_items_arg, cache, first, call, site,
                   clock, dependencies,
                   returned, log>>

NextRun ==
    \/ \E http \in HttpAnswers, page \in RunPages : ListOrgPage(http, page)
    \/ \E http \in HttpAnswers, page \in RunPages : ListUserPage(http, page)
    \/ \E http \in HttpAnswers : CallSite(http)
    \/ ReturnRun

SpecRun == InitRun /\ [][NextRun]_vars

(* priority, on every pair of arguments *)

InitPriority ==
    /\ pc = "call"
    /\ status \in Statuses
    /\ conclusion \in Conclusions
    /\ rank = -1
    /\ calls = {}
    /\ OthersIdle
    /\ ref = None
    /\ seen = {}
    /\ step = NoStep
    /\ collected = <<>>
    /\ dedup = <<>>
    /\ signals = <<>>
    /\ overall = None
    /\ repos = <<>>
    /\ idx = 1
    /\ items = <<>>

CallPriority ==
    /\ pc = "call"
    /\ rank' = priority(status, conclusion)
    /\ pc' = "ret"
    /\ UNCHANGED <<collected, dedup, signals, overall, repos, idx, items, status, conclusion, calls, collection,
                   others>>

NextPriority == CallPriority

SpecPriority == InitPriority /\ [][NextPriority]_vars

(* Claims on latest_test_signals *)

Returned == pc = "returned"

\* the normalized label of the claims: surrounding whitespace trimmed, lower-cased
NormalizedLabel(s) == Lower(Strip(s.label))
Group(sigs, s) == {k \in 1..Len(sigs) : NormalizedLabel(sigs[k]) = NormalizedLabel(s)}
Stamp(s) == IF IsNone(s.updated_at) THEN EmptyStr ELSE Val(s.updated_at)

\* C1: after the deduplication step no two surviving signals have the same
\* normalized label, and every normalized label of the collected candidates is
\* represented by exactly one survivor, which is one of the candidates.
C1_OnePerNormalizedLabel ==
    Returned =>
        /\ \A i, j \in 1..Len(dedup) :
              NormalizedLabel(dedup[i]) = NormalizedLabel(dedup[j]) => i = j
        /\ \A k \in 1..Len(collected) : Cardinality(Group(dedup, collected[k])) = 1
        /\ \A i \in 1..Len(dedup) : \E k \in 1..Len(collected) : collected[k] = dedup[i]

C1_Witness ==
    /\ Returned
    /\ Len(collected) = 3
    /\ Len(dedup) = 2
    /\ \E i, j \in 1..Len(collected) :
          /\ collected[i].label # collected[j].label
          /\ NormalizedLabel(collected[i]) = NormalizedLabel(collected[j])

\* C2: the survivor of every group of candidates sharing a normalized label has
\* the lexicographically greatest updated_at of the group, a missing updated_at
\* counting as the empty string; a dated candidate survives over an undated one.
C2_NewestSurvives ==
    Returned =>
        \A i \in 1..Len(dedup) :
            \A k \in Group(collected, dedup[i]) :
                /\ ~StrLess(Stamp(dedup[i]), Stamp(collected[k]))
                /\ ~IsNone(collected[k].updated_at) => ~IsNone(dedup[i].updated_at)

C2_Witness ==
    /\ Returned
    /\ Len(collected) = 3
    /\ Len(dedup) = 1
    /\ IsNone(collected[1].updated_at)
    /\ collected[2].updated_at = Some(<<50>>)
    /\ collected[3].updated_at = Some(<<49>>)
    /\ dedup[1] = collected[2]

\* C3: deduplication is idempotent: applied to its own output it returns the
\* same signals in the same order.
C3_DedupIdempotent == Returned => Deduplicate(dedup) = dedup

C3_Witness ==
    /\ Returned
    /\ Len(dedup) = 2
    /\ Len(collected) = 3
    /\ dedup[1] = collected[3]

\* C5: in the returned list a signal of smaller priority value stands before
\* every signal of greater priority value, whatever the timestamps.
C5_PriorityOrder ==
    Returned =>
        \A i, j \in 1..Len(signals) :
            Prio(signals[i]) < Prio(signals[j]) => i < j

C5_Witness ==
    /\ Returned
    /\ Len(signals) = 3
    /\ signals[1].conclusion = Some("failure")
    /\ signals[2].status = Some("in_progress")
    /\ signals[3].conclusion = Some("success")
    /\ signals[1] = collected[3]
    /\ signals[3] = collected[1]
    /\ StrLess(Stamp(signals[1]), Stamp(signals[3]))

\* C6: among returned signals of equal priority the order is descending by
\* updated_at, and every undated signal stands after every dated one.
C6_RecencyWithinPriority ==
    Returned =>
        \A i, j \in 1..Len(signals) :
            (i < j /\ Prio(signals[i]) = Prio(signals[j])) =>
                /\ ~StrLess(Stamp(signals[i]), Stamp(signals[j]))
                /\ IsNone(signals[i].updated_at) => IsNone(signals[j].updated_at)

C6_Witness ==
    /\ Returned
    /\ Len(signals) = 3
    /\ Prio(signals[1]) = Prio(signals[3])
    /\ IsNone(collected[1].updated_at)
    /\ collected[2].updated_at = Some(<<49>>)
    /\ collected[3].updated_at = Some(<<50>>)
    /\ signals = <<collected[3], collected[2], collected[1]>>

\* C7: when no signal is collected the returned list is empty and overall is the
\* synthetic signal: status "unknown", label "Tests", source "none", and no
\* conclusion, url or updated_at.
C7_UnknownOverall ==
    (Returned /\ collected = <<>>) =>
        /\ signals = <<>>
        /\ overall = [label |-> <<84, 101, 115, 116, 115>>, status |-> Some("unknown"),
                      conclusion |-> None, html_url |-> None, updated_at |-> None,
                      source |-> "none"]

C7_Witness == Returned /\ collected = <<>> /\ overall.source = "none"

\* C8: when the returned list is not empty, overall is an element of it of
\* minimal priority value, dated whenever some signal of that priority is dated,
\* and it is the head of the list.
C8_OverallIsHead ==
    (Returned /\ signals # <<>>) =>
        /\ \E i \in 1..Len(signals) : signals[i] = overall
        /\ \A i \in 1..Len(signals) : Prio(overall) <= Prio(signals[i])
        /\ (\E i \in 1..Len(signals) :
                Prio(signals[i]) = Prio(overall) /\ ~IsNone(signals[i].updated_at))
           => ~IsNone(overall.updated_at)
        /\ overall = signals[1]

C8_Witness ==
    /\ Returned
    /\ Len(signals) = 3
    /\ Prio(collected[1]) = Prio(collected[2])
    /\ Prio(collected[3]) > Prio(collected[1])
    /\ IsNone(collected[1].updated_at)
    /\ ~IsNone(collected[2].updated_at)
    /\ overall = collected[2]

(* Claims on priority *)

\* C4: priority is total: for every status and conclusion, missing and
\* unrecognised values included, it returns one value of 0..3: 0 for a failing
\* conclusion, else 1 for a running status, else 3 for success, else 2.
C4_PriorityTotal ==
    pc = "ret" =>
        /\ rank \in 0..3
        /\ rank = 0 <=> conclusion \in {Some("failure"), Some("timed_out"),
                                        Some("cancelled"), Some("action_required")}
        /\ rank = 1 <=> /\ rank # 0
                        /\ status \in {Some("in_progress"), Some("queued")}
        /\ rank = 3 <=> /\ rank \notin {0, 1}
                        /\ conclusion = Some("success")

C4_Witness ==
    /\ pc = "ret"
    /\ status = Some("in_progress")
    /\ conclusion = Some("failure")
    /\ rank = 0

(* Claims on build_cards *)

Restricted(it) == IsNone(it.default_branch)

\* the order of the claim, from the most to the least significant key
CardBefore(a, b) ==
    LET ga == IF a.has_tests THEN 0 ELSE 1
        gb == IF b.has_tests THEN 0 ELSE 1
        pa == Prio(a.overall)
        pb == Prio(b.overall)
        ua == Stamp(a.overall)
        ub == Stamp(b.overall)
    IN  \/ ga < gb
        \/ ga = gb /\ pa < pb
        \/ ga = gb /\ pa = pb /\ StrLess(ub, ua)
        \/ ga = gb /\ pa = pb /\ ua = ub /\ StrLess(Lower(a.repo), Lower(b.repo))

C10_RestrictedLast ==
    pc = "done" =>
        \A i, j \in 1..Len(items) :
            (Restricted(items[i]) /\ ~Restricted(items[j])) => j < i

(* Claims on the repositories build_cards takes *)

\* the card of the repository of this name, if any
CardsOf(name) == {k \in 1..Len(items) : items[k].repo = name}
CalledFor(name) == {c[2] : c \in {d \in calls : d[1] = name}}

\* C11: a repository whose default branch could not be resolved gets a card
\* marked restricted, without version and signals, and neither version
\* detection nor signal collection was called for it
C11_RestrictedSkipsSteps ==
    \A k \in 1..Len(items) :
        Restricted(items[k]) =>
            /\ "restricted" \in DOMAIN items[k]
            /\ items[k].version = NoVersion
            /\ items[k].subtests = <<>>
            /\ CalledFor(items[k].repo) \cap {"detect_version", "latest_test_signals"} = {}

\* C12: an archived repository of the listing is the subject of no call and
\* has no card
C12_ArchivedUntouched ==
    \A i \in 1..Len(repos) :
        repos[i].archived => CalledFor(repos[i].name) = {} /\ CardsOf(repos[i].name) = {}

C12_Witness ==
    /\ pc = "done"
    /\ items # <<>>
    /\ \E i \in 1..Len(repos) : repos[i].archived /\ repos[i].name # DotGithub

StepName == OrEmpty(Val(step.wf).name)
StepPath == OrEmpty(Val(step.wf).path)

\* a is the beginning of b, a is the end of b
IsPrefix(a, b) == Len(a) <= Len(b) /\ SubSeq(b, 1, Len(a)) = a
IsSuffix(a, b) == Len(a) <= Len(b) /\ SubSeq(b, Len(b) - Len(a) + 1, Len(b)) = a

\* C14: the runs of a workflow are requested, and it can contribute a signal,
\* only if its name or path holds an inclusion keyword and neither holds an
\* exclusion keyword; "Integration Tests" in a path holding "release" and
\* "Deploy Docs" contribute nothing
C14_WorkflowVerdict ==
    step.kind = "workflow" =>
        LET included == Search(TEST_WORKFLOW_RE, StepName) \/ Search(TEST_WORKFLOW_RE, StepPath)
            excluded == Search(NON_TEST_HINT, StepName) \/ Search(NON_TEST_HINT, StepPath)
        IN  /\ step.runs.sent <=> (included /\ ~excluded)
            /\ ~(included /\ ~excluded) => step.added = <<>>
            /\ (StepName = <<73, 110, 116, 101, 103, 114, 97, 116, 105, 111, 110, 32, 84, 101, 115, 116, 115>> /\ Contains(StepPath, <<114, 101, 108, 101, 97, 115, 101>>))
                   => (~step.runs.sent /\ step.added = <<>>)
            /\ StepName = <<68, 101, 112, 108, 111, 121, 32, 68, 111, 99, 115>> => (~step.runs.sent /\ step.added = <<>>)

C14_Witness ==
    /\ step.kind = "workflow"
    /\ StepName = <<73, 110, 116, 101, 103, 114, 97, 116, 105, 111, 110, 32, 84, 101, 115, 116, 115>>
    /\ Contains(StepPath, <<114, 101, 108, 101, 97, 115, 101>>)
    /\ \E k \in 1..Len(collected) : collected[k].source = "workflow"

\* the inclusion keywords of the claim: test, pytest, unit, integration, e2e,
\* acceptance, regress, smoke, playwright, behave, bdd, qa, automation,
\* testsuite, cypress, jest
ClaimedInclusion ==
    {<<116, 101, 115, 116>>,
     <<112, 121, 116, 101, 115, 116>>,
     <<117, 110, 105, 116>>,
     <<105, 110, 116, 101, 103, 114, 97, 116, 105, 111, 110>>,
     <<101, 50, 101>>,
     <<97, 99, 99, 101, 112, 116, 97, 110, 99, 101>>,
     <<114, 101, 103, 114, 101, 115, 115>>,
     <<115, 109, 111, 107, 101>>,
     <<112, 108, 97, 121, 119, 114, 105, 103, 104, 116>>,
     <<98, 101, 104, 97, 118, 101>>,
     <<98, 100, 100>>,
     <<113, 97>>,
     <<97, 117, 116, 111, 109, 97, 116, 105, 111, 110>>,
     <<116, 101, 115, 116, 115, 117, 105, 116, 101>>,
     <<99, 121, 112, 114, 101, 115, 115>>,
     <<106, 101, 115, 116>>}

\* C15: a check-run of the listing becomes a signal exactly if its name holds
\* one of the sixteen inclusion keywords of the claim and no exclusion keyword
C15_InclusionSet ==
    (step.kind = "checks" /\ ~Failed(step.checks)) =>
        \A k \in 1..Len(Listed(step.checks)) :
            LET cr == Listed(step.checks)[k]
            IN  (Search(ClaimedInclusion, cr.name) /\ ~Search(NON_TEST_HINT, cr.name))
                    <=> (\E i \in 1..Len(step.added) : step.added[i].label = cr.name)

\* the substrings the claim has the job filter exclude in addition: upload,
\* allure, qase, report, artifact, cache, setup, install, build
ClaimedJobExclusion ==
    {<<117, 112, 108, 111, 97, 100>>,
     <<97, 108, 108, 117, 114, 101>>,
     <<113, 97, 115, 101>>,
     <<114, 101, 112, 111, 114, 116>>,
     <<97, 114, 116, 105, 102, 97, 99, 116>>,
     <<99, 97, 99, 104, 101>>,
     <<115, 101, 116, 117, 112>>,
     <<105, 110, 115, 116, 97, 108, 108>>,
     <<98, 117, 105, 108, 100>>}

\* C16: no job-level signal has a label that holds one of the additional
\* exclusion substrings of the job filter
C16_JobFilterStricter ==
    \A k \in 1..Len(collected) :
        collected[k].source = "workflow:job" => ~Search(ClaimedJobExclusion, collected[k].label)

\* C17: a workflow step that found a run appends exactly one workflow-level
\* signal if no job of the run passes the job filter (the job listing failed, is
\* empty, or holds no passing job), and otherwise one job-level signal per
\* passing job, in their order, and no workflow-level signal
C17_WorkflowFallback ==
    (step.kind = "workflow" /\ Listed(step.runs) # <<>>) =>
        LET passing == SelectSeq(Listed(step.jobs), LAMBDA job : IsTestLike(job.name))
        IN  /\ IsSuffix(step.added, collected)
            /\ passing = <<>> =>
                  (Len(step.added) = 1 /\ step.added[1].source = "workflow")
            /\ passing # <<>> =>
                  /\ Len(step.added) = Len(passing)
                  /\ \A k \in 1..Len(passing) :
                        /\ step.added[k].source = "workflow:job"
                        /\ step.added[k].label = passing[k].name

C17_Witness ==
    /\ step.kind = "workflow"
    /\ step.jobs = Raise
    /\ Len(step.added) = 1
    /\ step.added[1].source = "workflow"
    /\ Cardinality({i \in 1..Len(collected) : collected[i].source = "workflow:job"}) = 2

\* C18: no step of latest_test_signals raises, every step keeps the signals
\* appended so far, and each of them is represented in the deduplicated list
\* when the function returns
C18_BestEffort ==
    [][/\ pc' # "raised"
       /\ IsPrefix(collected, collected')
       /\ pc' = "returned" =>
             \A k \in 1..Len(collected') : Group(dedup', collected'[k]) # {}]_vars

C18_Witness ==
    /\ pc = "returned"
    /\ step.phase1 = "failed"
    /\ step.checks = Raise
    /\ \E k \in 1..Len(collected) : \E i \in 1..Len(signals) : signals[i] = collected[k]

\* C19: whatever step 1 came to, latest_test_signals gets to step 2 and asks
\* for the head commit of ref; if it obtains a sha it requests the check-runs,
\* and every check-run of the listing that passes the test is a candidate
C19_ChecksIndependent ==
    pc \in {"collect", "returned"} =>
        /\ step.kind = "checks"
        /\ step.head.sent
        /\ (~Failed(step.head) /\ Val(step.head.data) # None) => step.checks.sent
        /\ \A k \in 1..Len(Listed(step.checks)) :
              LET cr == Listed(step.checks)[k]
              IN  IsTestLike(cr.name) =>
                      \E i \in 1..Len(collected) : collected[i] = CheckSignal(cr)

C19_Witness ==
    /\ pc = "returned"
    /\ step.phase1 = "failed"
    /\ collected # <<>>
    /\ \A k \in 1..Len(collected) : collected[k].source = "checks"

\* C20: the runs of a workflow are requested with branch = ref and one run per
\* page; an empty listing adds no signal and requests no jobs, and a
\* workflow-level signal carries the outcome of the first run of the listing
C20_RunsOfRef ==
    (step.kind = "workflow" /\ step.runs.sent) =>
        /\ step.request = Some([workflow |-> Val(step.wf).id, branch |-> ref, per_page |-> 1])
        /\ Listed(step.runs) = <<>> => (step.added = <<>> /\ ~step.jobs.sent)
        /\ Listed(step.runs) # <<>> =>
              \A k \in 1..Len(step.added) :
                  step.added[k].source = "workflow" =>
                      /\ step.added[k].status = Listed(step.runs)[1].status
                      /\ step.added[k].conclusion = Listed(step.runs)[1].conclusion
                      /\ step.added[k].updated_at = Listed(step.runs)[1].updated_at

C20_Witness ==
    /\ step.kind = "workflow"
    /\ ref = Some(<<109, 97, 105, 110>>)
    /\ Len(Listed(step.runs)) = 2
    /\ step.added # <<>>
    /\ step.added[1].source = "workflow"

(* detect_version and read_file_version *)

VERSION_PATHS ==
    <<<<112, 121, 112, 114, 111, 106, 101, 99, 116, 46, 116, 111, 109, 108>>, <<112, 97, 99, 107, 97, 103, 101, 46, 106, 115, 111, 110>>, <<99, 104, 97, 114, 116, 47, 67, 104, 97, 114, 116, 46, 121, 97, 109, 108>>, <<67, 104, 97, 114, 116, 46, 121, 97, 109, 108>>, <<115, 101, 116, 117, 112, 46, 99, 102, 103>>,
      <<115, 101, 116, 117, 112, 46, 112, 121>>, <<86, 69, 82, 83, 73, 79, 78>>, <<115, 114, 99, 47, 110, 101, 116, 98, 111, 120, 47, 95, 95, 105, 110, 105, 116, 95, 95, 46, 112, 121>>, <<110, 101, 116, 98, 111, 120, 47, 95, 95, 105, 110, 105, 116, 95, 95, 46, 112, 121>>>>

\* s.endswith(suffix)
EndsWith(s, suffix) ==
    Len(suffix) <= Len(s) /\ SubSeq(s, Len(s) - Len(suffix) + 1, Len(s)) = suffix

\* the branch of read_file_version that reads a path
Reader(path) ==
    IF EndsWith(path, <<112, 121, 112, 114, 111, 106, 101, 99, 116, 46, 116, 111, 109, 108>>) THEN "toml"
    ELSE IF EndsWith(path, <<112, 97, 99, 107, 97, 103, 101, 46, 106, 115, 111, 110>>) THEN "json"
    ELSE IF EndsWith(Lower(path), <<99, 104, 97, 114, 116, 46, 121, 97, 109, 108>>) THEN "yaml"
    ELSE IF EndsWith(path, <<115, 101, 116, 117, 112, 46, 99, 102, 103>>) \/ EndsWith(path, <<115, 101, 116, 117, 112, 46, 112, 121>>)
            \/ EndsWith(path, <<86, 69, 82, 83, 73, 79, 78>>) THEN "setup"
    ELSE IF EndsWith(path, <<95, 95, 105, 110, 105, 116, 95, 95, 46, 112, 121>>) THEN "init"
    ELSE "none"

\* the contents API answers with a file, given by what each step of
\* read_file_version gets from it: whether data["content"] decodes, whether
\* the toml, json or yaml parser accepts it, the value under its version key,
\* the group of the version regex, and content.strip()
File(decodes, parses, field, match, stripped) ==
    [decodes |-> decodes, parses |-> parses, field |-> field, match |-> match,
     stripped |-> stripped]

VersionFiles ==
    {File(FALSE, FALSE, None, None, EmptyStr),
     File(TRUE, FALSE, None, None, <<123>>),
     File(TRUE, TRUE, None, None, EmptyStr),
     File(TRUE, TRUE, Some(EmptyStr), None, <<118>>),
     File(TRUE, TRUE, Some(<<49, 46, 48>>), Some(<<49, 46, 48>>), <<118>>),
     File(TRUE, TRUE, Some(<<50, 46, 48>>), Some(<<50, 46, 48>>), <<118>>)}

\* what gh comes to for the contents of a path
ProbeAnswers == {Raise, Denied} \cup {Ok(f) : f \in VersionFiles}

\* what gh comes to for the tags: the newest tag ("v3.0") or no tag
TagAnswers == {Raise, Denied, Ok(<<>>), Ok(<<[name |-> <<118, 51, 46, 48>>]>>)}

read_file_version_unguarded(path, answer) ==
    IF Failed(answer) \/ ~Val(answer.data).decodes
    THEN [raises |-> TRUE, value |-> None]
    ELSE LET f == Val(answer.data)
             reader == Reader(path)
         IN  IF reader \in {"toml", "json", "yaml"}
             THEN (IF f.parses THEN [raises |-> FALSE, value |-> f.field]
                   ELSE [raises |-> TRUE, value |-> None])
             ELSE IF reader = "setup"
             THEN [raises |-> FALSE,
                   value |-> IF ~IsNone(f.match) THEN f.match
                             ELSE IF EndsWith(path, <<86, 69, 82, 83, 73, 79, 78>>) THEN Some(f.stripped)
                             ELSE None]
             ELSE IF reader = "init" THEN [raises |-> FALSE, value |-> f.match]
             ELSE [raises |-> FALSE, value |-> None]

\* read_file_version(owner, repo, path, ref), answer being what gh comes to:
\* whether it raises, and the optional version it returns
read_file_version(path, answer) ==
    IF Failed(answer) \/ ~Val(answer.data).decodes
    THEN [raises |-> FALSE, value |-> None]
    ELSE LET f == Val(answer.data)
             reader == Reader(path)
         IN  IF reader \in {"toml", "json", "yaml"}
             THEN [raises |-> FALSE, value |-> IF f.parses THEN f.field ELSE None]
             ELSE IF reader = "setup"
             THEN [raises |-> FALSE,
                   value |-> IF ~IsNone(f.match) THEN f.match
                             ELSE IF EndsWith(path, <<86, 69, 82, 83, 73, 79, 78>>) THEN Some(f.stripped)
                             ELSE None]
             ELSE IF reader = "init" THEN [raises |-> FALSE, value |-> f.match]
             ELSE [raises |-> FALSE, value |-> None]

\* `if v`: an optional string that is neither None nor ""
Truthy(v) == ~IsNone(v) /\ Val(v) # EmptyStr

\* the returns of detect_version
Detected(v, source) == [version |-> v, source |-> source]
NotDetected == Detected(None, <<97, 99, 99, 101, 115, 115, 32, 100, 101, 110, 105, 101, 100, 47, 110, 111, 116, 32, 102, 111, 117, 110, 100>>)
TagSource == <<103, 105, 116, 32, 116, 97, 103, 32, 40, 102, 97, 108, 108, 98, 97, 99, 107, 41>>

\* the site after the last path: the request of the tags
TagSite == Len(VERSION_PATHS) + 1

InitVersion ==
    /\ pc = "probe"
    /\ site = 1
    /\ log = <<>>
    /\ returned = None
    /\ call = NoCall
    /\ max_items_arg = MaxItems
    /\ cache = {}
    /\ first = {}
    /\ clock = 0
    /\ dependencies = {}
    /\ collected = <<>>
    /\ dedup = <<>>
    /\ signals = <<>>
    /\ overall = None
    /\ repos = <<>>
    /\ idx = 1
    /\ items = <<>>
    /\ status = None
    /\ conclusion = None
    /\ rank = -1
    /\ calls = {}
    /\ ref = None
    /\ seen = {}
    /\ step = NoStep

\* one turn of `for p in VERSION_PATHS`
Probe(answer) ==
    /\ pc = "probe"
    /\ site <= Len(VERSION_PATHS)
    /\ LET p == VERSION_PATHS[site]
           v == read_file_version(p, answer)
       IN  /\ call' = [kind |-> "probe", path |-> p, answer |-> answer,
                       raises |-> v.raises, value |-> v.value]
           /\ log' = Append(log, [kind |-> "probe", path |-> p, value |-> v.value])
           /\ IF v.raises
              THEN pc' = "returned" /\ returned' = Some(NotDetected) /\ UNCHANGED site
              ELSE IF Truthy(v.value)
              THEN pc' = "returned" /\ returned' = Some(Detected(v.value, p))
                   /\ UNCHANGED site
              ELSE /\ site' = site + 1
                   /\ pc' = IF site = Len(VERSION_PATHS) THEN "tags" ELSE "probe"
                   /\ UNCHANGED returned
    /\ UNCHANGED <<collected, dedup, signals, overall, repos, idx, items, status, conclusion,
                   rank, calls, ref, seen, step, max_items_arg, cache, first, clock,
                   dependencies>>

\* the fall back to the tags, and the return of detect_version
Tags(answer) ==
    /\ pc = "tags"
    /\ call' = [kind |-> "tags", path |-> TagSource, answer |-> answer,
                raises |-> answer.raises, value |-> None]
    /\ log' = Append(log, [kind |-> "tags", path |-> TagSource, value |-> None])
    /\ pc' = "returned"
    /\ returned' = IF Failed(answer) \/ Val(answer.data) = <<>>
                   THEN Some(NotDetected)
                   ELSE Some(Detected(Some(Val(answer.data)[1].name), TagSource))
    /\ UNCHANGED <<collected, dedup, signals, overall, repos, idx, items, status, conclusion,
                   rank, calls, ref, seen, step, max_items_arg, cache, first, site, clock,
                   dependencies>>

NextVersion ==
    \/ \E answer \in ProbeAnswers : Probe(answer)
    \/ \E answer \in TagAnswers : Tags(answer)

SpecVersion == InitVersion /\ [][NextVersion]_vars

(* gh and check_rate_limit of the scanners (scan_dependencies) *)

\* what /rate_limit answers: the request fails, or the remaining quota and
\* the time of its reset
Remainings == {5, 9, 10, 50, 5000}
Resets == {0, 2, 4}
RateAnswers ==
    {None} \cup {Some([remaining |-> n, reset |-> t]) : n \in Remainings, t \in Resets}

\* the thresholds of check_rate_limit and of gh
WarningThreshold == 100
CriticalThreshold == 10

\* max(0, core["reset"] - time.time() + 1)
SleepTime(reset, now) == IF reset - now + 1 > 0 THEN reset - now + 1 ELSE 0

\* check_rate_limit() at time now: the remaining quota it returns (None when
\* the check failed), whether it warned, and the time it slept
check_rate_limit(rate, now) ==
    IF IsNone(rate)
    THEN [remaining |-> None, warned |-> FALSE, slept |-> FALSE, sleep |-> 0]
    ELSE [remaining |-> Some(Val(rate).remaining),
          warned |-> Val(rate).remaining < WarningThreshold,
          slept |-> Val(rate).remaining < CriticalThreshold,
          sleep |-> IF Val(rate).remaining < CriticalThreshold
                    THEN SleepTime(Val(rate).reset, now) ELSE 0]

\* gh(url, params) of a scanner at time now, rate and http being what the API
\* answers if asked: the check, whether the request was issued, and the value
\* returned (None after an abort and after every HTTP error)
scan_gh(rate, http, now) ==
    LET limit == check_rate_limit(rate, now)
    IN  IF ~IsNone(limit.remaining) /\ Val(limit.remaining) < CriticalThreshold
        THEN [limit |-> limit, issued |-> FALSE, value |-> None]
        ELSE [limit |-> limit, issued |-> TRUE,
              value |-> IF http.status = 200 THEN http.body ELSE None]

\* number of calls of gh in one scan
MaxScanCalls == 3

InitScan ==
    /\ pc = "scan"
    /\ site = 1
    /\ clock = 0
    /\ call = NoCall
    /\ returned = None
    /\ log = <<>>
    /\ max_items_arg = MaxItems
    /\ cache = {}
    /\ first = {}
    /\ dependencies = {}
    /\ collected = <<>>
    /\ dedup = <<>>
    /\ signals = <<>>
    /\ overall = None
    /\ repos = <<>>
    /\ idx = 1
    /\ items = <<>>
    /\ status = None
    /\ conclusion = None
    /\ rank = -1
    /\ calls = {}
    /\ ref = None
    /\ seen = {}
    /\ step = NoStep

\* one call of gh; the sleep of check_rate_limit moves the clock
ScanGh(rate, http) ==
    /\ pc = "scan"
    /\ site <= MaxScanCalls
    /\ LET r == scan_gh(rate, http, clock)
       IN  /\ call' = [kind |-> "scan", rate |-> rate, http |-> http, at |-> clock,
                       slept |-> r.limit.slept, sleep |-> r.limit.sleep,
                       issued |-> r.issued]
           /\ returned' = r.value
           /\ clock' = clock + r.limit.sleep
    /\ site' = site + 1
    /\ UNCHANGED <<pc, collected, dedup, signals, overall, repos, idx, items, status,
                   conclusion, rank, calls, ref, seen, step, max_items_arg, cache, first,
                   dependencies, log>>

NextScan == \E rate \in RateAnswers, http \in HttpAnswers : ScanGh(rate, http)

SpecScan == InitScan /\ [][NextScan]_vars

(* discover_repo_dependencies *)

\* s.startswith(prefix)
StartsWith(s, prefix) == Len(prefix) <= Len(s) /\ SubSeq(s, 1, Len(prefix)) = prefix

\* the index of the first occurrence of sub in s, 0 if there is none
Find(s, sub) ==
    IF Contains(s, sub)
    THEN CHOOSE k \in 1..(Len(s) - Len(sub) + 1) :
            /\ SubSeq(s, k, k + Len(sub) - 1) = sub
            /\ \A j \in 1..(k - 1) : SubSeq(s, j, j + Len(sub) - 1) # sub
    ELSE 0

\* s.split(sub)[0], and the rest of s after the first sub
Before(s, sub) == IF Find(s, sub) = 0 THEN s ELSE SubSeq(s, 1, Find(s, sub) - 1)
After(s, sub) == SubSeq(s, Find(s, sub) + Len(sub), Len(s))

\* s.split(sub)[1], for an s that holds sub
Second(s, sub) == Before(After(s, sub), sub)

\* s.split(sub)[-1]
RECURSIVE Last(_, _)
Last(s, sub) == IF Find(s, sub) = 0 THEN s ELSE Last(After(s, sub), sub)

\* s.replace(sub, "")
RECURSIVE Remove(_, _)
Remove(s, sub) ==
    IF Find(s, sub) = 0 THEN s
    ELSE SubSeq(s, 1, Find(s, sub) - 1) \o Remove(After(s, sub), sub)

\* the arguments owner and repo: "acme", "api"
Owner == <<97, 99, 109, 101>>
Repo == <<97, 112, 105>>

clean_repo_name(name) ==
    IF StartsWith(name, <<110, 101, 116, 98, 111, 120, 108, 97, 98, 115, 45>>) THEN SubSeq(name, Len(<<110, 101, 116, 98, 111, 120, 108, 97, 98, 115, 45>>) + 1, Len(name))
    ELSE IF StartsWith(name, <<110, 101, 116, 98, 111, 120, 45>>) THEN SubSeq(name, Len(<<110, 101, 116, 98, 111, 120, 45>>) + 1, Len(name))
    ELSE IF StartsWith(name, <<110, 98, 108, 45>>) THEN SubSeq(name, Len(<<110, 98, 108, 45>>) + 1, Len(name))
    ELSE name

\* the names get_helm_dependencies adds for one entry of the dependencies of
\* a chart
HelmNames(dep) ==
    IF IsNone(dep.repository) THEN {}
    ELSE LET repo_url == Val(dep.repository)
         IN  IF Contains(Lower(repo_url), <<111, 99, 105, 58, 47, 47>>) \/ Contains(Lower(repo_url), <<114, 101, 103, 105, 115, 116, 114, 121>>)
             THEN (IF clean_repo_name(dep.name) # EmptyStr
                   THEN {clean_repo_name(dep.name)} ELSE {})
             ELSE IF Contains(repo_url, <<103, 105, 116, 104, 117, 98, 46, 99, 111, 109, 47>> \o Owner \o <<47>>)
             THEN {clean_repo_name(
                      Remove(Second(repo_url, <<103, 105, 116, 104, 117, 98, 46, 99, 111, 109, 47>> \o Owner \o <<47>>), <<46, 103, 105, 116>>))}
             ELSE IF dep.name # EmptyStr THEN {clean_repo_name(dep.name)}
             ELSE {}

\* add_dependency(dep_repo) on the set deps
add_dependency(deps, dep_repo) ==
    LET short == IF Contains(dep_repo, <<47>>) THEN Last(dep_repo, <<47>>) ELSE dep_repo
        name == IF StartsWith(short, Owner \o <<45>>)
                THEN SubSeq(short, Len(Owner) + 2, Len(short)) ELSE short
    IN  IF name # Repo THEN deps \cup {name} ELSE deps

\* the entries of the dependencies of a chart
HelmDeps ==
    {[name |-> <<97, 112, 105>>, repository |-> Some(<<111, 99, 105, 58, 47, 47, 103, 104, 99, 114, 46, 105, 111, 47, 97, 99, 109, 101>>)],
     [name |-> <<120>>, repository |-> Some(<<104, 116, 116, 112, 115, 58, 47, 47, 103, 105, 116, 104, 117, 98, 46, 99, 111, 109, 47, 97, 99, 109, 101, 47, 97, 99, 109, 101, 45, 97, 112, 105, 46, 103, 105, 116>>)],
     [name |-> <<110, 101, 116, 98, 111, 120, 45, 114, 101, 100, 105, 115>>, repository |-> Some(<<104, 116, 116, 112, 115, 58, 47, 47, 99, 104, 97, 114, 116, 115, 46, 101, 120, 97, 109, 112, 108, 101>>)],
     [name |-> <<97, 112, 105>>, repository |-> None]}

\* the url lines of .gitmodules
SubmoduleUrls ==
    {<<104, 116, 116, 112, 115, 58, 47, 47, 103, 105, 116, 104, 117, 98, 46, 99, 111, 109, 47, 97, 99, 109, 101, 47, 97, 112, 105, 46, 103, 105, 116>>, <<104, 116, 116, 112, 115, 58, 47, 47, 103, 105, 116, 104, 117, 98, 46, 99, 111, 109, 47, 97, 99, 109, 101, 47, 108, 105, 98, 46, 103, 105, 116>>,
     <<104, 116, 116, 112, 115, 58, 47, 47, 103, 105, 116, 104, 117, 98, 46, 99, 111, 109, 47, 111, 116, 104, 101, 114, 47, 97, 112, 105, 46, 103, 105, 116>>}

\* the uses statements of the workflows
UsesValues ==
    {<<97, 99, 109, 101, 47, 97, 112, 105, 47, 46, 103, 105, 116, 104, 117, 98, 47, 119, 111, 114, 107, 102, 108, 111, 119, 115, 47, 99, 105, 46, 121, 109, 108, 64, 109, 97, 105, 110>>, <<97, 99, 109, 101, 47, 99, 105, 64, 118, 49>>, <<97, 99, 116, 105, 111, 110, 115, 47, 99, 104, 101, 99, 107, 111, 117, 116, 64, 118, 52>>}

\* the versions of the dependencies of package.json
PackageVersions == {<<103, 105, 116, 104, 117, 98, 58, 97, 99, 109, 101, 47, 97, 112, 105, 35, 109, 97, 105, 110>>, <<103, 105, 116, 104, 117, 98, 58, 97, 99, 109, 101, 47, 117, 105>>, <<94, 49, 46, 48, 46, 48>>}

\* the order of the sources in discover_repo_dependencies
NextSource(source) ==
    IF source = "helm" THEN "submodules"
    ELSE IF source = "submodules" THEN "workflows"
    ELSE IF source = "workflows" THEN "package.json"
    ELSE "return"

InitDeps ==
    /\ pc = "helm"
    /\ dependencies = {}
    /\ call = NoCall
    /\ returned = None
    /\ log = <<>>
    /\ site = 1
    /\ clock = 0
    /\ max_items_arg = MaxItems
    /\ cache = {}
    /\ first = {}
    /\ collected = <<>>
    /\ dedup = <<>>
    /\ signals = <<>>
    /\ overall = None
    /\ repos = <<>>
    /\ idx = 1
    /\ items = <<>>
    /\ status = None
    /\ conclusion = None
    /\ rank = -1
    /\ calls = {}
    /\ ref = None
    /\ seen = {}
    /\ step = NoStep

\* the state that one reference leaves: the set, and the reference as the
\* last call
Found(source, text, deps) ==
    /\ dependencies' = deps
    /\ call' = [kind |-> "dependency", source |-> source, text |-> text]
    /\ UNCHANGED <<pc, collected, dedup, signals, overall, repos, idx, items, status,
                   conclusion, rank, calls, ref, seen, step, max_items_arg, cache, first,
                   site, clock, returned, log>>

\* for dep in helm_deps: add_dependency(dep), for the names of one entry
HelmDependency(dep) ==
    /\ pc = "helm"
    /\ LET names == HelmNames(dep)
       IN  Found("helm", dep.name,
                 IF names = {} THEN dependencies
                 ELSE add_dependency(dependencies, CHOOSE n \in names : TRUE))

\* one url line of .gitmodules
Submodule(url) ==
    /\ pc = "submodules"
    /\ Found("submodules", url,
             IF Contains(url, <<103, 105, 116, 104, 117, 98, 46, 99, 111, 109, 47>> \o Owner \o <<47>>)
             THEN dependencies
                    \cup {Remove(Second(url, <<103, 105, 116, 104, 117, 98, 46, 99, 111, 109, 47>> \o Owner \o <<47>>), <<46, 103, 105, 116>>)}
             ELSE dependencies)

\* one uses statement of a workflow
Uses(v) ==
    /\ pc = "workflows"
    /\ Found("workflows", v,
             IF StartsWith(v, Owner \o <<47>>)
             THEN add_dependency(dependencies, Before(Second(v, <<47>>), <<64>>))
             ELSE dependencies)

\* one dependency of package.json
Package(version) ==
    /\ pc = "package.json"
    /\ Found("package.json", version,
             IF StartsWith(version, <<103, 105, 116, 104, 117, 98, 58>> \o Owner \o <<47>>)
             THEN add_dependency(dependencies,
                                 Before(Second(version, <<103, 105, 116, 104, 117, 98, 58>> \o Owner \o <<47>>), <<35>>))
             ELSE dependencies)

\* the end of a source; after the last one, return list(dependencies)
EndSource ==
    /\ pc \in {"helm", "submodules", "workflows", "package.json"}
    /\ pc' = IF NextSource(pc) = "return" THEN "returned" ELSE NextSource(pc)
    /\ returned' = IF NextSource(pc) = "return" THEN Some(dependencies) ELSE returned
    /\ UNCHANGED <<collected, dedup, signals, overall, repos, idx, items, status, conclusion,
                   rank, calls, ref, seen, step, max_items_arg, cache, first, call, site,
                   clock, dependencies, log>>

NextDeps ==
    \/ \E dep \in HelmDeps : HelmDependency(dep)
    \/ \E url \in SubmoduleUrls : Submodule(url)
    \/ \E v \in UsesValues : Uses(v)
    \/ \E version \in PackageVersions : Package(version)
    \/ EndSource

SpecDeps == InitDeps /\ [][NextDeps]_vars

(* Claims on gh *)

\* C21 as stated: a call of gh that repeats a request identity issues no
\* request and returns what the first call of that identity returned
C21_RepeatReturnsFirst ==
    (call.kind = "gh" /\ call.repeat) =>
        (~call.issued /\ FirstOfIdentity(call.id, call.result) \in first)

\* C21: once a call of gh has succeeded, every later call with the same cache
\* key (the URL and the parameters in the order written) issues no request and
\* returns that response; every call keeps the entries of the cache as they
\* are, with one entry per key, and a call that fails stores nothing
C21_CachedRepeatReturnsFirst ==
    [][/\ \A e \in first :
             e = FirstOfKey(call'.key, e.result) => (~call'.issued /\ call'.result = e.result)
       /\ cache \subseteq cache'
       /\ \A e, f \in cache' : e.key = f.key => e = f
       /\ Failed(call'.result) => cache' = cache]_vars

C21_Witness ==
    /\ call.kind = "gh"
    /\ ~call.issued
    /\ call.http.status = 200
    /\ call.result # Ok(Val(call.http.body))
    /\ Cardinality(cache) = 2

(* Claims on the errors of gh in build_cards *)

\* C22: a call of gh answered 403, 404 or 409 returns None, and build_cards
\* goes on after it, at whichever call site
C22_DeniedIsNoData ==
    (call.kind = "site" /\ call.http.status \in DeniedStatuses) =>
        (call.result = Denied /\ pc # "raised")

C22_Witness ==
    /\ pc = "done"
    /\ call.kind = "site"
    /\ call.http.status \in DeniedStatuses
    /\ \E k \in 1..Len(items) : IsNone(items[k].default_branch)

\* C23: an HTTP error other than 403, 404 and 409 at a call of list_repos or at
\* default_branch(ORG, repo) is raised by gh and ends build_cards, which then
\* never returns
C23_OtherErrorsAbort ==
    /\ [](/\ call.kind = "site"
          /\ call.site \in {OrgSite, UserSite, BranchSite}
          /\ call.http.status \notin DeniedStatuses \cup {200}
          => (call.result = Raise /\ pc = "raised"))
    /\ [][pc # "raised"]_vars

C23_Witness ==
    /\ pc = "raised"
    /\ call.site = BranchSite
    /\ items # <<>>

(* Claims on the cards *)

\* C24: on every card, has_tests is true exactly if subtests is not empty
C24_HasTests ==
    \A k \in 1..Len(items) : items[k].has_tests <=> items[k].subtests # <<>>

C24_Witness ==
    /\ pc = "done"
    /\ \E k \in 1..Len(items) : items[k].has_tests /\ Len(items[k].subtests) = 1
    /\ \E k \in 1..Len(items) : ~items[k].has_tests /\ ~Restricted(items[k])

(* Claims on the cut of latest_test_signals *)

\* C25: latest_test_signals returns at most max_items signals, the first
\* max_items of the deduplicated list in its sorted order
C25_Bounded ==
    Returned =>
        LET sorted == SortSignals(dedup)
        IN  /\ Len(signals) <= max_items_arg
            /\ Len(signals) = IF Len(sorted) < max_items_arg THEN Len(sorted) ELSE max_items_arg
            /\ \A k \in 1..Len(signals) : signals[k] = sorted[k]
            /\ \A k \in 1..(Len(signals) - 1) : Prio(signals[k]) <= Prio(signals[k + 1])

C25_Witness ==
    /\ Returned
    /\ Len(dedup) = MaxSignals
    /\ Len(signals) = max_items_arg
    /\ max_items_arg > 1
    /\ Prio(signals[1]) < Prio(signals[2])

\* the deduplicated signals the cut dropped
Dropped == {k \in 1..Len(dedup) : \A i \in 1..Len(signals) : signals[i] # dedup[k]}

\* C30: the overall signal has the least priority value of all deduplicated
\* signals, and no dropped signal has a lower priority value than a kept one
C30_WorstKept ==
    (Returned /\ dedup # <<>>) =>
        /\ \A k \in 1..Len(dedup) : Prio(overall) <= Prio(dedup[k])
        /\ \A k \in Dropped : \A i \in 1..Len(signals) : Prio(signals[i]) <= Prio(dedup[k])

C30_Witness ==
    /\ Returned
    /\ Cardinality(Dropped) = 2
    /\ Prio(overall) = 0
    /\ \E k \in Dropped : Prio(dedup[k]) = 0
    /\ \E k \in Dropped : Prio(dedup[k]) > 0
    /\ Prio(collected[1]) > 0

(* Claims on detect_version *)

\* the entries of the log that are probes of a path
ProbesOfLog == {k \in 1..Len(log) : log[k].kind = "probe"}

\* C26: detect_version probes VERSION_PATHS in their order and returns the
\* version and the path of the first probe with a non-empty version; a probe
\* that fails to fetch, decode or parse yields nothing and the next path is
\* probed; the tag is asked for only after every path yielded nothing; and
\* with nothing found it returns no version and raises nothing.
C26_FirstVersionInOrder ==
    /\ pc # "raised"
    /\ \A k \in 1..Len(log) :
        /\ log[k].kind = "probe" => k <= Len(VERSION_PATHS) /\ log[k].path = VERSION_PATHS[k]
        /\ k < Len(log) => log[k].kind = "probe" /\ ~Truthy(log[k].value)
        /\ log[k].kind = "tags" => k = TagSite
    /\ call.kind = "probe"
        => /\ ~call.raises
           /\ (Failed(call.answer) \/ ~Val(call.answer.data).decodes
                \/ (Reader(call.path) \in {"toml", "json", "yaml"}
                        /\ ~Val(call.answer.data).parses))
                => IsNone(call.value)
    /\ pc = "returned"
        => LET last == log[Len(log)]
           IN  IF last.kind = "probe"
               THEN Truthy(last.value) /\ returned = Some(Detected(last.value, last.path))
               ELSE /\ Len(log) = TagSite
                    /\ returned \in {Some(NotDetected),
                                     Some(Detected(Some(<<118, 51, 46, 48>>), TagSource))}
                    /\ (Failed(call.answer) \/ Val(call.answer.data) = <<>>)
                        <=> IsNone(Val(returned).version)

\* detect_version returned the version of a later path after a probe that
\* failed to fetch, one that failed to parse and one with an empty version
C26_Witness ==
    /\ pc = "returned"
    /\ Len(log) >= 4
    /\ log[Len(log)].kind = "probe"
    /\ Truthy(Val(returned).version)
    /\ \E k \in 1..(Len(log) - 1) : log[k].value = Some(EmptyStr)
    /\ \E k \in 1..(Len(log) - 1) : IsNone(log[k].value)

(* Claims on the scanners *)

\* the last call of gh found the remaining quota below 10
CriticallyLow ==
    call.kind = "scan" /\ ~IsNone(call.rate) /\ Val(call.rate).remaining < CriticalThreshold

\* C27: when the remaining quota is below 10, gh of a scanner sleeps until
\* the reset, then still issues the request and returns its response.
C27_LowQuotaStillCalls ==
    CriticallyLow
        => /\ call.slept
           /\ clock >= Val(call.rate).reset
           /\ call.issued
           /\ call.http.status = 200 => returned = call.http.body

(* Claims on discover_repo_dependencies *)

\* C28: discover_repo_dependencies never has the repository itself in the
\* list it returns, whichever source the reference to it was found in.
C28_NeverItself ==
    /\ Repo \notin dependencies
    /\ pc = "returned" => Repo \notin Val(returned)

(* Claims on a failed run listing *)

\* the run listing of the test-like workflow taken by the last step failed
RunListingFailed ==
    step.kind = "workflow" /\ step.runs.sent /\ Failed(step.runs)

\* C29: if the run listing of a test-like workflow fails, the workflow phase
\* stops at that workflow: the failing pass and every later step take no
\* further workflow and append no workflow signal, the signals of the
\* workflows before it are kept, and the check-run phase still runs.
C29_StopsAtFailedListing ==
    [][/\ RunListingFailed' => pc' = "checks" /\ collected' = collected
       /\ (step.phase1 = "failed" /\ pc = "checks")
          => /\ step'.kind = "checks"
             /\ step'.head.sent
             /\ pc' = "collect"
             /\ collected' = collected \o step'.added
             /\ \A k \in 1..Len(step'.added) : step'.added[k].source = "checks"
       /\ (step.phase1 = "failed" /\ pc = "collect")
          => pc' = "returned" /\ collected' = collected]_vars

\* a workflow gave a signal, the run listing of a later one failed, and the
\* check-runs gave a signal after it
C29_Witness ==
    /\ pc = "returned"
    /\ step.phase1 = "failed"
    /\ step.added # <<>>
    /\ \E k \in 1..Len(collected) : collected[k].source = "workflow"
    /\ \E k \in 1..Len(collected) : collected[k].source = "checks"
    /\ \A k \in 1..Len(collected) :
          collected[k].source # "checks" => \E i \in 1..Len(signals) : signals[i] = collected[k]

====
